---- MODULE Spec2Model ----
(***************************************************************************)
(* A model of the Monkey bytecode toolchain: the instruction encoding      *)
(* (package code), the single-pass compiler (package compiler) and the     *)
(* stack virtual machine (package vm).                                     *)
(*                                                                         *)
(* Go values are modelled as records of one fixed shape, so that TLC can   *)
(* compare any two of them:                                                *)
(*   AST node   [kind, op, n, s, kids]                                     *)
(*   object     [type, n, s, elems, ins, id]                               *)
(* An Integer's value is an int64: arithmetic wraps (Wrap64) and a literal *)
(* outside int64 does not parse (InInt64).  The programs explored keep     *)
(* every result far inside int64.                                          *)
(***************************************************************************)
EXTENDS Integers, Sequences, FiniteSets, TLC

VARIABLES
    program,    \* the *ast.Program handed to Compile
    pc,         \* where the pipeline stands: see PcValues
    comp,       \* the Compiler (constants, symbolTable, scopes, scopeIndex)
    compErr,    \* the error Compile returned ("" is nil)
    comp2,      \* a second, fresh Compiler run on the same program
    vm,         \* the VM (constants, stack, sp, globals, frames, framesIndex)
    runErr,     \* the error Run returned, or the panic that ended it
    lastOp,     \* Run's local op: the opcode fetched by the last iteration
    enc,        \* package code on one input: op, operands, Make's bytes, what ReadOperands read
    pushed,     \* the last call of push: the VM before it, the object, the error returned
    frameCall,  \* the last call of pushFrame or popFrame: which, and the VM before it
    repl,       \* the read-evaluate loop: the lines it has finished and what it wrote
    parser,     \* the parser: its tokens, its position in them, its errors
    disasm      \* Instructions.String() on one byte sequence: ins, its offset i, the lines written

vars == <<program, pc, comp, compErr, comp2, vm, runErr, lastOp, enc, pushed, frameCall, repl, parser, disasm>>

(***************************************************************************)
(* Bounds of the exploration.                                              *)
(***************************************************************************)
\* operand samples are taken within OperandSpan of 0, 255/256 and 65535
OperandSpan == 3
\* bytes above the last defined opcode that are tried as opcodes
UndefinedOps == 2
\* pushes explored from a nearly full stack
PushWindow == 3
\* frame stacks start within FrameWindow of one frame and of full
FrameWindow == 2

(***************************************************************************)
(* package code: opcodes                                                   *)
(***************************************************************************)
OpConstant == 0
OpAdd == 1
OpPop == 2
OpSub == 3
OpMul == 4
OpDiv == 5
OpTrue == 6
OpFalse == 7
OpEqual == 8
OpNotEqual == 9
OpGreaterThan == 10
OpMinus == 11
OpBang == 12
OpJumpNotTruthy == 13
OpJump == 14
OpNull == 15
OpGetGlobal == 16
OpSetGlobal == 17
OpArray == 18
OpHash == 19
OpIndex == 20
OpCall == 21
OpReturnValue == 22
OpReturn == 23
OpGetLocal == 24
OpSetLocal == 25

\* type Definition struct { Name; OperandWidths }
Definition(name, widths) == [Name |-> name, OperandWidths |-> widths]

\* var definitions = map[Opcode]*Definition{...}
definitions ==
    [op \in OpConstant..OpSetLocal |->
        CASE op = OpConstant      -> Definition("OpConstant", <<2>>)
          [] op = OpAdd           -> Definition("OpAdd", <<>>)
          [] op = OpPop           -> Definition("OpPop", <<>>)
          [] op = OpSub           -> Definition("OpSub", <<>>)
          [] op = OpMul           -> Definition("OpMul", <<>>)
          [] op = OpDiv           -> Definition("OpDiv", <<>>)
          [] op = OpTrue          -> Definition("OpTrue", <<>>)
          [] op = OpFalse         -> Definition("OpFalse", <<>>)
          [] op = OpEqual         -> Definition("OpEqual", <<>>)
          [] op = OpNotEqual      -> Definition("OpNotEqual", <<>>)
          [] op = OpGreaterThan   -> Definition("OpGreaterThan", <<>>)
          [] op = OpMinus         -> Definition("OpMinus", <<>>)
          [] op = OpBang          -> Definition("OpBang", <<>>)
          [] op = OpJumpNotTruthy -> Definition("OpJumpNotTruthy", <<2>>)
          [] op = OpJump          -> Definition("OpJump", <<2>>)
          [] op = OpNull          -> Definition("OpNull", <<>>)
          [] op = OpGetGlobal     -> Definition("OpGetGlobal", <<2>>)
          [] op = OpSetGlobal     -> Definition("OpSetGlobal", <<2>>)
          [] op = OpGetLocal      -> Definition("OpGetLocal", <<1>>)
          [] op = OpSetLocal      -> Definition("OpSetLocal", <<1>>)
          [] op = OpArray         -> Definition("OpArray", <<2>>)
          [] op = OpHash          -> Definition("OpHash", <<2>>)
          [] op = OpIndex         -> Definition("OpIndex", <<>>)
          [] op = OpCall          -> Definition("OpCall", <<>>)
          [] op = OpReturnValue   -> Definition("OpReturnValue", <<>>)
          [] op = OpReturn        -> Definition("OpReturn", <<>>)]

\* def, ok := definitions[op]: ok
Defined(op) == op \in DOMAIN definitions

\* Lookup(op): the definition (only where Defined(op); else Lookup returns an error)
Lookup(op) == definitions[op]

\* a PutUint16 that stores the low byte first
PutUint16LittleEndian(o) == << o % 256, (o % 65536) \div 256 >>

\* binary.BigEndian.PutUint16(b, uint16(o))
PutUint16(o) == << (o % 65536) \div 256, o % 256 >>

\* instruction[offset] = byte(o)
PutUint8(o) == << o % 256 >>

\* a Uint16 that takes the low byte first
ReadUint16LittleEndian(ins) == ins[2] * 256 + ins[1]

\* func ReadUint16(ins Instructions) uint16: binary.BigEndian.Uint16(ins)
ReadUint16(ins) == ins[1] * 256 + ins[2]

\* uint8(ins[0])
ReadUint8(ins) == ins[1]

\* ins[from:] of a Go slice, with from counted from 0
SliceFrom(ins, from) == SubSeq(ins, from + 1, Len(ins))

\* ins[:to] of a Go slice
SliceTo(ins, to) == SubSeq(ins, 1, to)

\* the sum of the first k operand widths
RECURSIVE WidthSum(_, _)
WidthSum(widths, k) ==
    IF k = 0 THEN 0 ELSE WidthSum(widths, k - 1) + widths[k]

\* Make's loop over the operands: the bytes of operand slots i..Len(widths).
\* A slot with no operand keeps the zero bytes make() put there; a width that
\* is neither 1 nor 2 is skipped by the switch and keeps zeros too.
RECURSIVE MakeOperands(_, _, _)
MakeOperands(widths, operands, i) ==
    IF i > Len(widths) THEN <<>>
    ELSE LET w == widths[i]
             bytes == IF i > Len(operands) THEN [k \in 1..w |-> 0]
                      ELSE IF w = 2 THEN PutUint16(operands[i])
                      ELSE IF w = 1 THEN PutUint8(operands[i])
                      ELSE [k \in 1..w |-> 0]
         IN  bytes \o MakeOperands(widths, operands, i + 1)

\* Make indexes def.OperandWidths[i] for every operand given: more operands
\* than widths is an index out of range
MakePanics(op, operands) ==
    Defined(op) /\ Len(operands) > Len(Lookup(op).OperandWidths)

\* func Make(op Opcode, operands ...int) []byte
Make(op, operands) ==
    IF ~Defined(op) THEN <<>>
    ELSE <<op>> \o MakeOperands(Lookup(op).OperandWidths, operands, 1)

\* ReadOperands' loop: the operands decoded from slot i on, offset bytes in
RECURSIVE ReadOperandsFrom(_, _, _, _)
ReadOperandsFrom(widths, ins, i, offset) ==
    IF i > Len(widths) THEN <<>>
    ELSE LET w == widths[i]
             v == IF w = 2 THEN ReadUint16(SliceFrom(ins, offset))
                  ELSE IF w = 1 THEN ReadUint8(SliceFrom(ins, offset))
                  ELSE 0
         IN  <<v>> \o ReadOperandsFrom(widths, ins, i + 1, offset + w)

\* func ReadOperands(def *Definition, ins Instructions) ([]int, int)
ReadOperands(def, ins) ==
    << ReadOperandsFrom(def.OperandWidths, ins, 1, 0),
       WidthSum(def.OperandWidths, Len(def.OperandWidths)) >>

\* func (ins Instructions) fmtInstruction(def *Definition, operands []int) string:
\* the text, as the name or message and the operands printed after it
fmtInstruction(def, operands) ==
    LET operandCount == Len(def.OperandWidths)
    IN  IF Len(operands) # operandCount
        THEN [text |-> "ERROR: operand len does not match defined", operands |-> <<>>]
        ELSE IF operandCount = 0 THEN [text |-> def.Name, operands |-> <<>>]
        ELSE IF operandCount = 1 THEN [text |-> def.Name, operands |-> <<operands[1]>>]
        ELSE [text |-> "ERROR: unhandled operandCount", operands |-> <<>>]

\* ReadOperands(def, ins[i+1:]) reads past the end of ins: ReadUint16 and
\* ReadUint8 index a slice that is too short
StringPanics(d) ==
    /\ Defined(d.ins[d.i + 1])
    /\ d.i + 1 + WidthSum(Lookup(d.ins[d.i + 1]).OperandWidths,
                          Len(Lookup(d.ins[d.i + 1]).OperandWidths)) > Len(d.ins)

\* one iteration of the loop of func (ins Instructions) String() string, at
\* offset d.i < len(ins): on a Lookup error it writes the error and continues
\* with i as it is; otherwise it writes the line "%04d %s" and adds
\* 1 + read to i
StringIteration(d) ==
    LET op == d.ins[d.i + 1]
    IN  IF ~Defined(op)
        THEN [d EXCEPT !.out = Append(@, [offset |-> -1,
                                          text |-> "ERROR: opcode undefined",
                                          operands |-> <<op>>])]
        ELSE LET def == Lookup(op)
                 r == ReadOperands(def, SliceFrom(d.ins, d.i + 1))
                 f == fmtInstruction(def, r[1])
             IN  [d EXCEPT !.out = Append(@, [offset |-> d.i, text |-> f.text,
                                              operands |-> f.operands]),
                           !.i = d.i + 1 + r[2]]

(***************************************************************************)
(* package ast: nodes.  Text (identifier names, string literals) is a      *)
(* sequence of byte values, so that String() and its ordering can be       *)
(* computed.                                                               *)
(***************************************************************************)
\* n is a value of Go's int64.  The first disjunct says nothing the second
\* does not: it settles the small values without forming 2^63.
InInt64(n) ==
    \/ (-1073741824 <= n /\ n <= 1073741823)
    \/ (-(2^63) <= n /\ n <= 2^63 - 1)

\* the int64 an exact result n wraps to (Go: signed overflow wraps around)
Wrap64(n) == IF InInt64(n) THEN n ELSE ((n + 2^63) % 2^64) - 2^63

Node(kind, op, n, s, kids) == [kind |-> kind, op |-> op, n |-> n, s |-> s, kids |-> kids]

\* &ast.Program{Statements: stmts}
Program(stmts) == Node("program", "", 0, <<>>, stmts)
\* &ast.ExpressionStatement{Expression: e}
ExpressionStatement(e) == Node("exprstmt", "", 0, <<>>, <<e>>)
\* &ast.LetStatement{Name: name, Value: e}
LetStatement(name, e) == Node("let", "", 0, name, <<e>>)
\* &ast.ReturnStatement{ReturnValue: e}
ReturnStatement(e) == Node("return", "", 0, <<>>, <<e>>)
\* &ast.BlockStatement{Statements: stmts}
BlockStatement(stmts) == Node("block", "", 0, <<>>, stmts)
\* the decimal digits of n >= 0, as bytes (Token.Literal of an integer)
RECURSIVE DecimalBytes(_)
DecimalBytes(n) ==
    IF n < 10 THEN <<48 + n>> ELSE DecimalBytes(n \div 10) \o <<48 + (n % 10)>>

\* &ast.IntegerLiteral{Token: {INT, literal}, Value: n}
IntegerLiteralOf(n, literal) == Node("int", "", n, literal, <<>>)
\* &ast.IntegerLiteral{Value: n} written in decimal
IntegerLiteral(n) == IntegerLiteralOf(n, DecimalBytes(n))
\* &ast.Boolean{Value: b}
Boolean(b) == Node("bool", "", IF b THEN 1 ELSE 0, <<>>, <<>>)
\* &ast.StringLiteral{Value: s}
StringLiteral(s) == Node("str", "", 0, s, <<>>)
\* &ast.Identifier{Value: name}
Identifier(name) == Node("ident", "", 0, name, <<>>)
\* &ast.PrefixExpression{Operator: op, Right: r}
PrefixExpression(op, r) == Node("prefix", op, 0, <<>>, <<r>>)
\* &ast.InfixExpression{Left: l, Operator: op, Right: r}
InfixExpression(l, op, r) == Node("infix", op, 0, <<>>, <<l, r>>)
\* &ast.IfExpression{Condition, Consequence, Alternative: nil}
IfExpression(cond, cons) == Node("if", "", 0, <<>>, <<cond, cons>>)
\* &ast.IfExpression{Condition, Consequence, Alternative}
IfElseExpression(cond, cons, alt) == Node("if", "", 0, <<>>, <<cond, cons, alt>>)
\* &ast.ArrayLiteral{Elements: elems}
ArrayLiteral(elems) == Node("array", "", 0, <<>>, elems)
\* &ast.HashLiteral{Pairs: map}: kids holds key1, value1, key2, value2, ...
\* (the map itself has no order: see HashKeyOrder)
HashLiteral(flatPairs) == Node("hash", "", 0, <<>>, flatPairs)
\* &ast.IndexExpression{Left, Index}
IndexExpression(l, i) == Node("index", "", 0, <<>>, <<l, i>>)
\* &ast.FunctionLiteral{Body: body}  (Compile never reads Parameters)
FunctionLiteral(body) == Node("fn", "", 0, <<>>, <<body>>)
\* &ast.CallExpression{Function: f}  (Compile never reads Arguments)
CallExpression(f) == Node("call", "", 0, <<>>, <<f>>)

(***************************************************************************)
(* package parser.  The lexer is not part of the sources: a source text is *)
(* taken as the tokens the lexer yields for it, followed by EOF for ever.  *)
(* A call that never returns is the parser with loops set.                 *)
(***************************************************************************)
Token(type, literal) == [Type |-> type, Literal |-> literal]
EOF == Token("EOF", <<>>)

\* the precedence order of operations
LOWEST == 1
EQUALS == 2
LESSGREATER == 3
SUM == 4
PRODUCT == 5
PREFIX == 6
CALL == 7

\* var precedences, with the LOWEST that peekPrecedence and curPrecedence
\* return for a token outside it
precedences(type) ==
    CASE type \in {"EQ", "NOT_EQ"} -> EQUALS
      [] type \in {"LT", "GT"} -> LESSGREATER
      [] type \in {"PLUS", "MINUS"} -> SUM
      [] type \in {"SLASH", "ASTERISK"} -> PRODUCT
      [] type = "LPAREN" -> CALL
      [] OTHER -> LOWEST

\* the token types New registers a prefixParseFn and an infixParseFn for
PrefixTypes ==
    {"IDENT", "INT", "BANG", "MINUS", "TRUE", "FALSE", "LPAREN", "IF", "FUNCTION",
     "STRING", "LBRACKET"}
InfixTypes == {"PLUS", "MINUS", "SLASH", "ASTERISK", "EQ", "NOT_EQ", "LT", "GT", "LPAREN"}

\* Token.Literal of an operator token, as the Operator of a node
Spelling(type) ==
    CASE type = "PLUS" -> "+"
      [] type = "MINUS" -> "-"
      [] type = "SLASH" -> "/"
      [] type = "ASTERISK" -> "*"
      [] type = "EQ" -> "=="
      [] type = "NOT_EQ" -> "!="
      [] type = "LT" -> "<"
      [] type = "GT" -> ">"
      [] type = "BANG" -> "!"
      [] OTHER -> "("

\* func New(l *lexer.Lexer) *Parser: p.nextToken() twice makes the first
\* token curToken and the second peekToken
NewParser(toks) == [l |-> toks, at |-> 1, errors |-> <<>>, loops |-> FALSE]

curToken(p) == IF p.at <= Len(p.l) THEN p.l[p.at] ELSE EOF
peekToken(p) == IF p.at + 1 <= Len(p.l) THEN p.l[p.at + 1] ELSE EOF

\* func (p *Parser) nextToken(): with curToken and peekToken both EOF it
\* changes nothing
nextToken(p) == [p EXCEPT !.at = IF @ > Len(p.l) THEN @ ELSE @ + 1]

curTokenIs(p, t) == curToken(p).Type = t
peekTokenIs(p, t) == peekToken(p).Type = t
peekPrecedence(p) == precedences(peekToken(p).Type)
curPrecedence(p) == precedences(curToken(p).Type)

\* func (p *Parser) peekError(t token.TokenType)
peekError(p, t) ==
    [p EXCEPT !.errors = Append(@, "expected next token to be " \o t)]

\* func (p *Parser) noPrefixParseFnError(t token.TokenType)
noPrefixParseFnError(p, t) ==
    [p EXCEPT !.errors = Append(@, "no prefix parse function for " \o t)]

\* func (p *Parser) expectPeek(t token.TokenType) bool
expectPeek(p, t) ==
    IF peekTokenIs(p, t) THEN [ok |-> TRUE, p |-> nextToken(p)]
    ELSE [ok |-> FALSE, p |-> peekError(p, t)]

\* what a parse function returns, and the parser after it
Parsed(node, p) == [node |-> node, p |-> p]
\* a nil ast.Expression, and the nil *ast.LetStatement that parseStatement
\* returns inside a non-nil ast.Statement
NilNode == Node("nil", "", 0, <<>>, <<>>)
NilLetStatement == Node("nil", "*ast.LetStatement", 0, <<>>, <<>>)

\* strconv.ParseInt(literal, 0, 64) on a run of decimal digits: base 0 reads
\* a leading 0 as the octal prefix
RECURSIVE DigitsValue(_, _, _)
DigitsValue(digits, base, acc) ==
    IF Len(digits) = 0 THEN acc
    ELSE DigitsValue(Tail(digits), base, acc * base + (digits[1] - 48))

\* strconv.ParseInt(literal, 0, 64): no digits, a digit above 7 after the
\* octal prefix, or a value outside int64 is an error
ParseInt(literal) ==
    IF Len(literal) = 0 THEN [ok |-> FALSE, value |-> 0]
    ELSE IF Len(literal) > 1 /\ literal[1] = 48
    THEN IF \E k \in 2..Len(literal) : literal[k] > 55
         THEN [ok |-> FALSE, value |-> 0]
         ELSE LET value == DigitsValue(Tail(literal), 8, 0)
              IN  IF InInt64(value) THEN [ok |-> TRUE, value |-> value]
                  ELSE [ok |-> FALSE, value |-> 0]
    ELSE LET value == DigitsValue(literal, 10, 0)
         IN  IF InInt64(value) THEN [ok |-> TRUE, value |-> value]
             ELSE [ok |-> FALSE, value |-> 0]

\* parseExpression and parseStatement, which every parse function may call
RECURSIVE Parse(_, _, _)
RECURSIVE InfixLoop(_, _, _)
RECURSIVE ListLoop(_, _)
RECURSIVE BlockLoop(_, _)
RECURSIVE SkipToSemicolon(_)
RECURSIVE ParameterLoop(_, _)
RECURSIVE ProgramLoop(_, _)

\* func (p *Parser) parseIdentifier() ast.Expression
parseIdentifier(p) == Parsed(Identifier(curToken(p).Literal), p)

\* func (p *Parser) parseIntegerLiteral() ast.Expression
parseIntegerLiteral(p) ==
    LET r == ParseInt(curToken(p).Literal)
    IN  IF ~r.ok
        THEN Parsed(NilNode, [p EXCEPT !.errors = Append(@, "could not parse as integer")])
        ELSE Parsed(IntegerLiteralOf(r.value, curToken(p).Literal), p)

\* func (p *Parser) parseBoolean() ast.Expression
parseBoolean(p) == Parsed(Boolean(curTokenIs(p, "TRUE")), p)

\* func (p *Parser) parseStringLiteral() ast.Expression
parseStringLiteral(p) == Parsed(StringLiteral(curToken(p).Literal), p)

\* func (p *Parser) parsePrefixExpression() ast.Expression
parsePrefixExpression(p) ==
    LET r == Parse("parseExpression", nextToken(p), PREFIX)
    IN  Parsed(PrefixExpression(Spelling(curToken(p).Type), r.node), r.p)

\* the right arm parsed one step lower, which groups equal operators to the right
parseInfixExpressionRightFirst(p, left) ==
    LET precedence == curPrecedence(p)
        r == Parse("parseExpression", nextToken(p), precedence - 1)
    IN  Parsed(InfixExpression(left, Spelling(curToken(p).Type), r.node), r.p)

\* func (p *Parser) parseInfixExpression(left ast.Expression) ast.Expression
parseInfixExpression(p, left) ==
    LET precedence == curPrecedence(p)
        r == Parse("parseExpression", nextToken(p), precedence)
    IN  Parsed(InfixExpression(left, Spelling(curToken(p).Type), r.node), r.p)

\* func (p *Parser) parseGroupedExpression() ast.Expression
parseGroupedExpression(p) ==
    LET r == Parse("parseExpression", nextToken(p), LOWEST)
        e == expectPeek(r.p, "RPAREN")
    IN  IF ~e.ok THEN Parsed(NilNode, e.p) ELSE Parsed(r.node, e.p)

\* the for loop of parseBlockStatement
BlockLoop(p, stmts) ==
    IF curTokenIs(p, "RBRACE") \/ curTokenIs(p, "EOF") THEN Parsed(BlockStatement(stmts), p)
    ELSE LET r == Parse("parseStatement", p, LOWEST)
         IN  BlockLoop(nextToken(r.p), Append(stmts, r.node))

\* func (p *Parser) parseBlockStatement() *ast.BlockStatement
parseBlockStatement(p) == BlockLoop(nextToken(p), <<>>)

\* func (p *Parser) parseIfExpression() ast.Expression
parseIfExpression(p) ==
    LET e1 == expectPeek(p, "LPAREN")
        cond == Parse("parseExpression", nextToken(e1.p), LOWEST)
        e2 == expectPeek(cond.p, "RPAREN")
        e3 == expectPeek(e2.p, "LBRACE")
        cons == parseBlockStatement(e3.p)
        e4 == expectPeek(nextToken(cons.p), "LBRACE")
        alt == parseBlockStatement(e4.p)
    IN  IF ~e1.ok THEN Parsed(NilNode, e1.p)
        ELSE IF ~e2.ok THEN Parsed(NilNode, e2.p)
        ELSE IF ~e3.ok THEN Parsed(NilNode, e3.p)
        ELSE IF ~peekTokenIs(cons.p, "ELSE")
        THEN Parsed(IfExpression(cond.node, cons.node), cons.p)
        ELSE IF ~e4.ok THEN Parsed(NilNode, e4.p)
        ELSE Parsed(IfElseExpression(cond.node, cons.node, alt.node), alt.p)

\* the for loop of parseFunctionParameters
ParameterLoop(p, identifiers) ==
    IF ~peekTokenIs(p, "COMMA") THEN [list |-> identifiers, p |-> p]
    ELSE LET p2 == nextToken(nextToken(p))
         IN  ParameterLoop(p2, Append(identifiers, Identifier(curToken(p2).Literal)))

\* func (p *Parser) parseFunctionParameters() []*ast.Identifier: nil and
\* the empty list are both no parameters
parseFunctionParameters(p) ==
    IF peekTokenIs(p, "RPAREN") THEN [list |-> <<>>, p |-> nextToken(p)]
    ELSE LET p1 == nextToken(p)
             r == ParameterLoop(p1, <<Identifier(curToken(p1).Literal)>>)
             e == expectPeek(r.p, "RPAREN")
         IN  IF ~e.ok THEN [list |-> <<>>, p |-> e.p] ELSE [list |-> r.list, p |-> e.p]

\* func (p *Parser) parseFunctionLiteral() ast.Expression: the node holds the
\* body and then the parameters
parseFunctionLiteral(p) ==
    LET e1 == expectPeek(p, "LPAREN")
        params == parseFunctionParameters(e1.p)
        e2 == expectPeek(params.p, "LBRACE")
        body == parseBlockStatement(e2.p)
    IN  IF ~e1.ok THEN Parsed(NilNode, e1.p)
        ELSE IF ~e2.ok THEN Parsed(NilNode, e2.p)
        ELSE Parsed(Node("fn", "", 0, <<>>, <<body.node>> \o params.list), body.p)

\* the for loop of parseExpressionList
ListLoop(p, list) ==
    IF ~peekTokenIs(p, "COMMA") THEN [list |-> list, p |-> p]
    ELSE LET r == Parse("parseExpression", nextToken(nextToken(p)), LOWEST)
         IN  ListLoop(r.p, Append(list, r.node))

\* func (p *Parser) parseExpressionList(end token.TokenType) []ast.Expression:
\* nil and the empty list are both no expressions
parseExpressionList(p, end) ==
    IF peekTokenIs(p, end) THEN [list |-> <<>>, p |-> nextToken(p)]
    ELSE LET first == Parse("parseExpression", nextToken(p), LOWEST)
             r == ListLoop(first.p, <<first.node>>)
             e == expectPeek(r.p, end)
         IN  IF ~e.ok THEN [list |-> <<>>, p |-> e.p] ELSE [list |-> r.list, p |-> e.p]

\* func (p *Parser) parseCallExpression(function ast.Expression) ast.Expression:
\* the node holds the function and then the arguments
parseCallExpression(p, function) ==
    LET r == parseExpressionList(p, "RPAREN")
    IN  Parsed(Node("call", "", 0, <<>>, <<function>> \o r.list), r.p)

\* func (p *Parser) parseArrayLiteral() ast.Expression
parseArrayLiteral(p) ==
    LET r == parseExpressionList(p, "RBRACKET")
    IN  Parsed(ArrayLiteral(r.list), r.p)

\* prefix := p.prefixParseFns[p.curToken.Type]; prefix()
PrefixParse(p) ==
    LET t == curToken(p).Type
    IN  CASE t = "IDENT" -> parseIdentifier(p)
          [] t = "INT" -> parseIntegerLiteral(p)
          [] t \in {"BANG", "MINUS"} -> parsePrefixExpression(p)
          [] t \in {"TRUE", "FALSE"} -> parseBoolean(p)
          [] t = "LPAREN" -> parseGroupedExpression(p)
          [] t = "IF" -> parseIfExpression(p)
          [] t = "FUNCTION" -> parseFunctionLiteral(p)
          [] t = "STRING" -> parseStringLiteral(p)
          [] t = "LBRACKET" -> parseArrayLiteral(p)

\* infix := p.infixParseFns[p.curToken.Type]; infix(leftExp)
InfixParse(p, left) ==
    IF curTokenIs(p, "LPAREN") THEN parseCallExpression(p, left)
    ELSE parseInfixExpression(p, left)

\* the for loop of parseExpression
InfixLoop(p, precedence, leftExp) ==
    IF peekTokenIs(p, "SEMICOLON") \/ ~(precedence < peekPrecedence(p)) THEN Parsed(leftExp, p)
    ELSE IF peekToken(p).Type \notin InfixTypes THEN Parsed(leftExp, p)
    ELSE LET r == InfixParse(nextToken(p), leftExp)
         IN  InfixLoop(r.p, precedence, r.node)

\* func (p *Parser) parseExpression(precedence int) ast.Expression
parseExpression(p, precedence) ==
    IF curToken(p).Type \notin PrefixTypes
    THEN Parsed(NilNode, noPrefixParseFnError(p, curToken(p).Type))
    ELSE LET left == PrefixParse(p)
         IN  InfixLoop(left.p, precedence, left.node)

\* func (p *Parser) parseLetStatement() *ast.LetStatement
parseLetStatement(p) ==
    LET e1 == expectPeek(p, "IDENT")
        e2 == expectPeek(e1.p, "ASSIGN")
        r == Parse("parseExpression", nextToken(e2.p), LOWEST)
    IN  IF ~e1.ok THEN Parsed(NilLetStatement, e1.p)
        ELSE IF ~e2.ok THEN Parsed(NilLetStatement, e2.p)
        ELSE Parsed(LetStatement(curToken(e1.p).Literal, r.node),
                    IF peekTokenIs(r.p, "SEMICOLON") THEN nextToken(r.p) ELSE r.p)

\* for !p.curTokenIs(token.SEMICOLON) { p.nextToken() }: once curToken is EOF
\* nextToken changes nothing and the loop never ends
SkipToSemicolon(p) ==
    IF curTokenIs(p, "SEMICOLON") THEN p
    ELSE IF curTokenIs(p, "EOF") THEN [p EXCEPT !.loops = TRUE]
    ELSE SkipToSemicolon(nextToken(p))

\* func (p *Parser) parseReturnStatement() *ast.ReturnStatement
parseReturnStatement(p) ==
    LET r == Parse("parseExpression", nextToken(p), LOWEST)
    IN  Parsed(ReturnStatement(r.node), SkipToSemicolon(r.p))

\* func (p *Parser) parseExpressionStatement() *ast.ExpressionStatement
parseExpressionStatement(p) ==
    LET r == Parse("parseExpression", p, LOWEST)
    IN  Parsed(ExpressionStatement(r.node),
               IF peekTokenIs(r.p, "SEMICOLON") THEN nextToken(r.p) ELSE r.p)

\* func (p *Parser) parseStatement() ast.Statement
parseStatement(p) ==
    CASE curTokenIs(p, "LET") -> parseLetStatement(p)
      [] curTokenIs(p, "RETURN") -> parseReturnStatement(p)
      [] OTHER ->
            LET stmt == parseExpressionStatement(p)
            IN  Parsed(stmt.node,
                       IF peekTokenIs(stmt.p, "SEMICOLON") THEN nextToken(stmt.p) ELSE stmt.p)

Parse(fn, p, precedence) ==
    IF fn = "parseExpression" THEN parseExpression(p, precedence) ELSE parseStatement(p)

\* the for loop of ParseProgram: stmt != nil holds for every statement, the
\* nil *ast.LetStatement too
ProgramLoop(p, stmts) ==
    IF curTokenIs(p, "EOF") THEN Parsed(Program(stmts), p)
    ELSE LET r == Parse("parseStatement", p, LOWEST)
         IN  ProgramLoop(nextToken(r.p), Append(stmts, r.node))

\* func (p *Parser) ParseProgram() *ast.Program
ParseProgram(p) == ProgramLoop(p, <<>>)

\* the bytes of Operator, for the spellings of the programs explored
OperatorBytes(op) ==
    CASE op = "+"  -> <<43>>
      [] op = "-"  -> <<45>>
      [] op = "*"  -> <<42>>
      [] op = "/"  -> <<47>>
      [] op = "<"  -> <<60>>
      [] op = ">"  -> <<62>>
      [] op = "==" -> <<61, 61>>
      [] op = "!=" -> <<33, 61>>
      [] op = "!"  -> <<33>>
      [] op = "~"  -> <<126>>
      [] op = "%"  -> <<37>>

RECURSIVE NodeString(_)
RECURSIVE JoinStrings(_, _)
RECURSIVE ConcatStrings(_, _)

\* func (n) String() string of package ast.  IntegerLiteral, Boolean and
\* StringLiteral give their Token.Literal.  The String methods of
\* ArrayLiteral, IndexExpression and HashLiteral are not among the sources:
\* the first two are rendered as their source text, a hash literal is not
\* rendered.
NodeString(node) ==
    CASE node.kind \in {"int", "str", "ident"} -> node.s
      [] node.kind = "bool"   -> IF node.n = 1 THEN <<116, 114, 117, 101>>
                                 ELSE <<102, 97, 108, 115, 101>>
      [] node.kind = "prefix" ->
            <<40>> \o OperatorBytes(node.op) \o NodeString(node.kids[1]) \o <<41>>
      [] node.kind = "infix"  ->
            <<40>> \o NodeString(node.kids[1]) \o <<32>> \o OperatorBytes(node.op)
                   \o <<32>> \o NodeString(node.kids[2]) \o <<41>>
      [] node.kind = "if" ->
            <<105, 102>> \o NodeString(node.kids[1]) \o <<32>> \o NodeString(node.kids[2])
            \o (IF Len(node.kids) < 3 THEN <<>>
                ELSE <<101, 108, 115, 101, 32>> \o NodeString(node.kids[3]))
      [] node.kind \in {"program", "block"} -> ConcatStrings(node.kids, 1)
      [] node.kind = "exprstmt" ->
            IF node.kids[1].kind = "nil" THEN <<>> ELSE NodeString(node.kids[1])
      [] node.kind = "let" ->
            <<108, 101, 116, 32>> \o node.s \o <<32, 61, 32>>
            \o (IF node.kids[1].kind = "nil" THEN <<>> ELSE NodeString(node.kids[1]))
            \o <<59>>
      [] node.kind = "return" ->
            <<114, 101, 116, 117, 114, 110, 32>>
            \o (IF node.kids[1].kind = "nil" THEN <<>> ELSE NodeString(node.kids[1]))
            \o <<59>>
      [] node.kind = "fn" ->
            <<102, 110, 40>> \o JoinStrings(node.kids, 2) \o <<41, 32>>
            \o NodeString(node.kids[1])
      [] node.kind = "call" ->
            NodeString(node.kids[1]) \o <<40>> \o JoinStrings(node.kids, 2) \o <<41>>
      [] node.kind = "array" -> <<91>> \o JoinStrings(node.kids, 1) \o <<93>>
      [] node.kind = "index" ->
            <<40>> \o NodeString(node.kids[1]) \o <<91>> \o NodeString(node.kids[2])
                   \o <<93, 41>>
\* strings.Join of the String() of nodes i.. with ", "
JoinStrings(nodes, i) ==
    IF i > Len(nodes) THEN <<>>
    ELSE NodeString(nodes[i])
         \o (IF i < Len(nodes) THEN <<44, 32>> ELSE <<>>)
         \o JoinStrings(nodes, i + 1)
\* the String() of nodes i.. written one after the other
ConcatStrings(nodes, i) ==
    IF i > Len(nodes) THEN <<>>
    ELSE NodeString(nodes[i]) \o ConcatStrings(nodes, i + 1)

\* String() dereferences nil: on a nil *ast.LetStatement, and on a nil
\* Expression anywhere but as the expression of a statement (the three
\* statements test for it)
RECURSIVE NodeStringPanics(_)
NodeStringPanics(node) ==
    CASE node.kind = "nil" -> TRUE
      [] node.kind \in {"exprstmt", "let", "return"} ->
            node.kids[1] # NilNode /\ NodeStringPanics(node.kids[1])
      [] OTHER -> \E k \in 1..Len(node.kids) : NodeStringPanics(node.kids[k])

\* Go's a < b on strings: byte-wise lexicographic
RECURSIVE StringLess(_, _)
StringLess(a, b) ==
    IF Len(b) = 0 THEN FALSE
    ELSE IF Len(a) = 0 THEN TRUE
    ELSE IF a[1] # b[1] THEN a[1] < b[1]
    ELSE StringLess(Tail(a), Tail(b))

(***************************************************************************)
(* package object: values.  id tells objects apart that Go tells apart by  *)
(* pointer; the singletons True, False and Null have id 0.                 *)
(***************************************************************************)
Object(type, n, s, elems, ins, id) ==
    [type |-> type, n |-> n, s |-> s, elems |-> elems, ins |-> ins, id |-> id]

INTEGER_OBJ == "INTEGER"
BOOLEAN_OBJ == "BOOLEAN"
NULL_OBJ == "NULL"
STRING_OBJ == "STRING"
ARRAY_OBJ == "ARRAY"
HASH_OBJ == "HASH"
COMPILED_FUNCTION_OBJ == "COMPILED_FUNCTION_OBJ"

\* &object.Integer{Value: n}
Integer(n, id) == Object(INTEGER_OBJ, n, <<>>, <<>>, <<>>, id)
\* &object.String{Value: s}
String(s, id) == Object(STRING_OBJ, 0, s, <<>>, <<>>, id)
\* &object.Array{Elements: elems}
Array(elems, id) == Object(ARRAY_OBJ, 0, <<>>, elems, <<>>, id)
\* &object.Hash{Pairs: ...}: elems holds key1, value1, key2, value2, ...
Hash(flatPairs, id) == Object(HASH_OBJ, 0, <<>>, flatPairs, <<>>, id)
\* &object.CompiledFunction{Instructions: ins}
CompiledFunction(ins, id) == Object(COMPILED_FUNCTION_OBJ, 0, <<>>, <<>>, ins, id)
\* var True = &object.Boolean{Value: true}
True == Object(BOOLEAN_OBJ, 1, <<>>, <<>>, <<>>, 0)
\* var False = &object.Boolean{Value: false}
False == Object(BOOLEAN_OBJ, 0, <<>>, <<>>, <<>>, 0)
\* var Null = &object.Null{}
Null == Object(NULL_OBJ, 0, <<>>, <<>>, <<>>, 0)
\* a nil object.Object: an array slot nothing was stored in
Nil == Object("nil", 0, <<>>, <<>>, <<>>, 0)

(***************************************************************************)
(* package compiler: the symbol table.  Its source file is not among the   *)
(* sources; it is modelled from the specification (4.3): a table is the    *)
(* chain of its layers, outermost first, the current layer last.           *)
(***************************************************************************)
GlobalScope == "GLOBAL"
LocalScope == "LOCAL"

Symbol(name, scope, index) == [Name |-> name, Scope |-> scope, Index |-> index]

\* NewSymbolTable(): one layer, nothing defined
NewSymbolTable == << [store |-> <<>>, numDefinitions |-> 0] >>

\* NewEnclosedSymbolTable(outer)
NewEnclosedSymbolTable(outer) == Append(outer, [store |-> <<>>, numDefinitions |-> 0])

\* s.Outer
Outer(st) == SubSeq(st, 1, Len(st) - 1)

\* the Symbol that Define(name) returns
DefinedSymbol(st, name) ==
    Symbol(name, IF Len(st) > 1 THEN LocalScope ELSE GlobalScope,
           st[Len(st)].numDefinitions)

\* Define(name): the table afterwards (store[name] is overwritten)
Define(st, name) ==
    [st EXCEPT ![Len(st)] =
        [store |-> Append(SelectSeq(@.store, LAMBDA sy : sy.Name # name),
                          DefinedSymbol(st, name)),
         numDefinitions |-> @.numDefinitions + 1]]

\* Resolve(name) -> (Symbol, ok): the current layer first, then outward
RECURSIVE Resolve(_, _)
Resolve(st, name) ==
    IF Len(st) = 0 THEN [ok |-> FALSE, symbol |-> Symbol(<<>>, "", 0)]
    ELSE LET hits == SelectSeq(st[Len(st)].store, LAMBDA sy : sy.Name = name)
         IN  IF Len(hits) > 0 THEN [ok |-> TRUE, symbol |-> hits[1]]
             ELSE Resolve(Outer(st), name)

(***************************************************************************)
(* package compiler                                                        *)
(***************************************************************************)
\* the Go runtime panic on a nil pointer or a nil interface
NilDereference == "panic: runtime error: invalid memory address or nil pointer dereference"
\* the Go runtime panic on an index past the end of a slice or an array
IndexOutOfRange == "panic: runtime error: index out of range"

\* type EmittedInstruction struct { Opcode; Position }
EmittedInstruction(op, pos) == [Opcode |-> op, Position |-> pos]

\* CompilationScope{instructions: {}, lastInstruction: {}, previousInstruction: {}}
NewCompilationScope ==
    [instructions |-> <<>>,
     lastInstruction |-> EmittedInstruction(0, 0),
     previousInstruction |-> EmittedInstruction(0, 0)]

\* func New() *Compiler.  mapOrder is not a field of Compiler: it holds the
\* orders the Go runtime will draw in this run, one for each range over a map,
\* in the order of the ranges (see HashKeyOrder).
New ==
    [constants |-> <<>>,
     symbolTable |-> NewSymbolTable,
     scopes |-> <<NewCompilationScope>>,
     scopeIndex |-> 0,
     mapOrder |-> <<>>]

\* func NewWithState(s *SymbolTable, constants []object.Object) *Compiler
NewWithState(s, constants) == [New EXCEPT !.symbolTable = s, !.constants = constants]

\* c.scopes[c.scopeIndex].instructions
currentInstructions(c) == c.scopes[c.scopeIndex + 1].instructions

\* func (c *Compiler) addInstruction(ins []byte) int: the compiler afterwards
\* (the position returned is len(currentInstructions()) before the call)
addInstruction(c, ins) ==
    [c EXCEPT !.scopes[c.scopeIndex + 1].instructions = @ \o ins]

\* func (c *Compiler) setLastInstruction(op, pos)
setLastInstruction(c, op, pos) ==
    LET previous == c.scopes[c.scopeIndex + 1].lastInstruction
        last == EmittedInstruction(op, pos)
    IN  [c EXCEPT !.scopes[c.scopeIndex + 1].previousInstruction = previous,
                  !.scopes[c.scopeIndex + 1].lastInstruction = last]

\* func (c *Compiler) emit(op, operands...) int: the compiler afterwards
\* (the position returned is len(currentInstructions()) before the call)
emit(c, op, operands) ==
    setLastInstruction(addInstruction(c, Make(op, operands)), op,
                       Len(currentInstructions(c)))

\* an addConstant that puts the object in front of the pool
addConstantInFront(c, obj) == [c EXCEPT !.constants = <<obj>> \o @]

\* func (c *Compiler) addConstant(obj) int: the compiler afterwards
\* (the index returned is len(c.constants) before the call)
addConstant(c, obj) == [c EXCEPT !.constants = Append(@, obj)]

\* func (c *Compiler) lastInstructionIs(op) bool
lastInstructionIs(c, op) ==
    IF Len(currentInstructions(c)) = 0 THEN FALSE
    ELSE c.scopes[c.scopeIndex + 1].lastInstruction.Opcode = op

\* func (c *Compiler) removeLastPop()
removeLastPop(c) ==
    LET last == c.scopes[c.scopeIndex + 1].lastInstruction
        previous == c.scopes[c.scopeIndex + 1].previousInstruction
    IN  [c EXCEPT !.scopes[c.scopeIndex + 1].instructions = SliceTo(@, last.Position),
                  !.scopes[c.scopeIndex + 1].lastInstruction = previous]

\* what Compile returns: the compiler as it leaves it, and the error ("" is nil)
Result(c, err) == [c |-> c, err |-> err, panic |-> ""]

\* Compile does not return: the Go runtime panics with what
Panicking(c, what) == [c |-> c, err |-> "", panic |-> what]

\* err != nil, or the call never returned
Failed(r) == r.err # "" \/ r.panic # ""

\* func (c *Compiler) replaceInstruction(pos, newInstruction): the loop writes
\* ins[pos+i] byte by byte; the first index past the end of ins panics, the
\* bytes before it written
replaceInstruction(c, pos, newInstruction) ==
    LET written == [c EXCEPT !.scopes[c.scopeIndex + 1].instructions =
                        [k \in 1..Len(@) |->
                            IF k > pos /\ k <= pos + Len(newInstruction)
                            THEN newInstruction[k - pos] ELSE @[k]]]
    IN  IF pos + Len(newInstruction) > Len(currentInstructions(c))
           /\ Len(newInstruction) > 0
        THEN Panicking(written, IndexOutOfRange)
        ELSE Result(written, "")

\* a replaceLastPopWithReturn that records the new opcode and leaves the byte
replaceLastPopWithReturnUnwritten(c) ==
    Result([c EXCEPT !.scopes[c.scopeIndex + 1].lastInstruction.Opcode = OpReturnValue], "")

\* func (c *Compiler) replaceLastPopWithReturn()
replaceLastPopWithReturn(c) ==
    LET lastPos == c.scopes[c.scopeIndex + 1].lastInstruction.Position
        r == replaceInstruction(c, lastPos, Make(OpReturnValue, <<>>))
    IN  IF r.panic # "" THEN r
        ELSE Result([r.c EXCEPT !.scopes[c.scopeIndex + 1].lastInstruction.Opcode =
                                    OpReturnValue], "")

\* func (c *Compiler) changeOperand(opPos, operand): currentInstructions()[opPos]
\* past the end panics, and so does code.Make when the byte found there is an
\* opcode that takes no operand
changeOperand(c, opPos, operand) ==
    IF opPos >= Len(currentInstructions(c)) THEN Panicking(c, IndexOutOfRange)
    ELSE LET op == currentInstructions(c)[opPos + 1]
         IN  IF MakePanics(op, <<operand>>) THEN Panicking(c, IndexOutOfRange)
             ELSE replaceInstruction(c, opPos, Make(op, <<operand>>))

\* func (c *Compiler) enterScope()
enterScope(c) ==
    [c EXCEPT !.scopes = Append(@, NewCompilationScope),
              !.scopeIndex = @ + 1,
              !.symbolTable = NewEnclosedSymbolTable(@)]

\* func (c *Compiler) leaveScope() code.Instructions: the compiler afterwards
\* (the instructions returned are currentInstructions() before the call)
leaveScope(c) ==
    [c EXCEPT !.scopes = SubSeq(@, 1, Len(@) - 1),
              !.scopeIndex = @ - 1,
              !.symbolTable = Outer(@)]

\* for k := range node.Pairs: the keys (1..n, by their place in kids) in the
\* order this range yields them.  Every range draws its own order: the next
\* one is the head of c.mapOrder.  An order lists places; a place it does not
\* list comes after, in ascending order.
RECURSIVE Unlisted(_, _, _)
Unlisted(order, k, n) ==
    IF k > n THEN <<>>
    ELSE (IF \E i \in 1..Len(order) : order[i] = k THEN <<>> ELSE <<k>>)
         \o Unlisted(order, k + 1, n)

MapRange(order, n) ==
    LET listed == SelectSeq(order, LAMBDA k : k <= n)
    IN  listed \o Unlisted(listed, 1, n)

\* sort.Slice on fewer than 12 keys is an insertion sort: key j moves left
\* while less(keys[j], keys[j-1])
RECURSIVE InsertKey(_, _, _)
InsertKey(sorted, k, node) ==
    IF Len(sorted) = 0 THEN <<k>>
    ELSE LET last == sorted[Len(sorted)]
         IN  IF StringLess(NodeString(node.kids[2 * k - 1]),
                           NodeString(node.kids[2 * last - 1]))
             THEN Append(InsertKey(SubSeq(sorted, 1, Len(sorted) - 1), k, node), last)
             ELSE Append(sorted, k)

RECURSIVE SortKeys(_, _, _)
SortKeys(keys, i, node) ==
    IF i = 0 THEN <<>>
    ELSE InsertKey(SortKeys(keys, i - 1, node), keys[i], node)

\* sort.Slice calls keys[i].String() on every key once there are two
SortPanics(node) ==
    /\ Len(node.kids) \div 2 >= 2
    /\ \E k \in 1..(Len(node.kids) \div 2) : NodeStringPanics(node.kids[2 * k - 1])

\* the order the next range over a map takes, and the draws left after it
NextMapOrder(c) == IF Len(c.mapOrder) = 0 THEN <<>> ELSE Head(c.mapOrder)
AfterMapRange(c) == [c EXCEPT !.mapOrder = IF Len(@) = 0 THEN <<>> ELSE Tail(@)]

\* the keys of a hash literal in the order Compile compiles them
HashKeyOrder(c, node) ==
    LET n == Len(node.kids) \div 2
        keys == MapRange(NextMapOrder(c), n)
    IN  SortKeys(keys, n, node)

RECURSIVE Compile(_, _)
RECURSIVE CompileStatements(_, _, _)
RECURSIVE CompileElements(_, _, _)
RECURSIVE CompilePairs(_, _, _, _)

\* for _, s := range node.Statements { err := c.Compile(s); if err != nil { return err } }
CompileStatements(stmts, i, c) ==
    IF i > Len(stmts) THEN Result(c, "")
    ELSE LET r == Compile(stmts[i], c)
         IN  IF Failed(r) THEN r ELSE CompileStatements(stmts, i + 1, r.c)

\* the loop over node.Elements of an array literal
CompileElements(elems, i, c) ==
    IF i > Len(elems) THEN Result(c, "")
    ELSE LET r == Compile(elems[i], c)
         IN  IF r.panic # "" THEN r
             ELSE IF r.err # ""
             THEN Result(r.c, "Compile(): array element coudn't compile " \o r.err)
             ELSE CompileElements(elems, i + 1, r.c)

\* the loop over the sorted keys of a hash literal: key, then value
CompilePairs(node, keys, i, c) ==
    IF i > Len(keys) THEN Result(c, "")
    ELSE LET rk == Compile(node.kids[2 * keys[i] - 1], c)
         IN  IF rk.panic # "" THEN rk
             ELSE IF rk.err # ""
             THEN Result(rk.c, "comp: Compile(): (Hash) compilation of key failed. " \o rk.err)
             ELSE LET rv == Compile(node.kids[2 * keys[i]], rk.c)
                  IN  IF rv.panic # "" THEN rv
                      ELSE IF rv.err # ""
                      THEN Result(rv.c, "comp: Compile(): (Hash) compilation of key failed. " \o rv.err)
                      ELSE CompilePairs(node, keys, i + 1, rv.c)

\* case *ast.PrefixExpression
CompilePrefix(node, c) ==
    LET r == Compile(node.kids[1], c)
    IN  IF Failed(r) THEN r
        ELSE IF node.op = "!" THEN Result(emit(r.c, OpBang, <<>>), "")
        ELSE IF node.op = "-" THEN Result(emit(r.c, OpMinus, <<>>), "")
        ELSE Result(r.c, "compiler: unknown prefix operator")

\* a < branch that compiles the left operand before the right one
CompileLessThanLeftFirst(node, c) ==
    LET r1 == Compile(node.kids[1], c)
    IN  IF r1.panic # "" THEN r1
        ELSE IF r1.err # "" THEN Result(r1.c, "")
        ELSE LET r2 == Compile(node.kids[2], r1.c)
             IN  IF r2.panic # "" THEN r2
                 ELSE IF r2.err # "" THEN Result(r2.c, "")
                 ELSE Result(emit(r2.c, OpGreaterThan, <<>>), "")

\* case *ast.InfixExpression with Operator "<": right, then left, then
\* OpGreaterThan; an error of either operand is answered with return nil
CompileLessThan(node, c) ==
    LET r1 == Compile(node.kids[2], c)
    IN  IF r1.panic # "" THEN r1
        ELSE IF r1.err # "" THEN Result(r1.c, "")
        ELSE LET r2 == Compile(node.kids[1], r1.c)
             IN  IF r2.panic # "" THEN r2
                 ELSE IF r2.err # "" THEN Result(r2.c, "")
                 ELSE Result(emit(r2.c, OpGreaterThan, <<>>), "")

\* case *ast.InfixExpression
CompileInfix(node, c) ==
    IF node.op = "<" THEN CompileLessThan(node, c)
    ELSE LET r1 == Compile(node.kids[1], c)
         IN  IF Failed(r1) THEN r1
             ELSE LET r2 == Compile(node.kids[2], r1.c)
                  IN  IF Failed(r2) THEN r2
                      ELSE CASE node.op = "+"  -> Result(emit(r2.c, OpAdd, <<>>), "")
                             [] node.op = "-"  -> Result(emit(r2.c, OpSub, <<>>), "")
                             [] node.op = "*"  -> Result(emit(r2.c, OpMul, <<>>), "")
                             [] node.op = "/"  -> Result(emit(r2.c, OpDiv, <<>>), "")
                             [] node.op = ">"  -> Result(emit(r2.c, OpGreaterThan, <<>>), "")
                             [] node.op = "==" -> Result(emit(r2.c, OpEqual, <<>>), "")
                             [] node.op = "!=" -> Result(emit(r2.c, OpNotEqual, <<>>), "")
                             [] OTHER -> Result(r2.c, "compiler: unknown infix operator")

\* if c.lastInstructionIs(code.OpPop) { c.removeLastPop() }
DropLastPop(c) == IF lastInstructionIs(c, OpPop) THEN removeLastPop(c) ELSE c

\* case *ast.IfExpression, from the alternative on: c has the consequence and
\* the OpJump at jumpPos, and the OpJumpNotTruthy already patched
CompileAlternative(node, c, jumpPos) ==
    IF Len(node.kids) < 3
    THEN LET c1 == emit(c, OpNull, <<>>)
         IN  changeOperand(c1, jumpPos, Len(currentInstructions(c1)))
    ELSE LET r == Compile(node.kids[3], c)
         IN  IF Failed(r) THEN r
             ELSE LET c1 == DropLastPop(r.c)
                  IN  changeOperand(c1, jumpPos, Len(currentInstructions(c1)))

\* case *ast.IfExpression
CompileIf(node, c) ==
    LET r1 == Compile(node.kids[1], c)
    IN  IF Failed(r1) THEN r1
        ELSE LET jumpNotTruthyPos == Len(currentInstructions(r1.c))
                 c2 == emit(r1.c, OpJumpNotTruthy, <<9999>>)
                 r3 == Compile(node.kids[2], c2)
             IN  IF Failed(r3) THEN r3
                 ELSE LET c4 == DropLastPop(r3.c)
                          jumpPos == Len(currentInstructions(c4))
                          c5 == emit(c4, OpJump, <<9999>>)
                          afterConsequencePos == Len(currentInstructions(c5))
                          r6 == changeOperand(c5, jumpNotTruthyPos, afterConsequencePos)
                      IN  IF r6.panic # "" THEN r6
                          ELSE CompileAlternative(node, r6.c, jumpPos)

\* case *ast.LetStatement
CompileLet(node, c) ==
    LET r == Compile(node.kids[1], c)
    IN  IF Failed(r) THEN r
        ELSE LET symbol == DefinedSymbol(r.c.symbolTable, node.s)
                 c1 == [r.c EXCEPT !.symbolTable = Define(@, node.s)]
             IN  IF symbol.Scope = GlobalScope
                 THEN Result(emit(c1, OpSetGlobal, <<symbol.Index>>), "")
                 ELSE Result(emit(c1, OpSetLocal, <<symbol.Index>>), "")

\* an identifier compiled to the slot of the latest definition, whatever its name
CompileIdentifierLatestSlot(node, c) ==
    LET found == Resolve(c.symbolTable, node.s)
        latest == c.symbolTable[Len(c.symbolTable)].numDefinitions - 1
    IN  IF ~found.ok THEN Result(c, "Compile(): undefined variable")
        ELSE IF found.symbol.Scope = GlobalScope
        THEN Result(emit(c, OpGetGlobal, <<latest>>), "")
        ELSE Result(emit(c, OpGetLocal, <<latest>>), "")

\* case *ast.Identifier
CompileIdentifier(node, c) ==
    LET found == Resolve(c.symbolTable, node.s)
    IN  IF ~found.ok THEN Result(c, "Compile(): undefined variable")
        ELSE IF found.symbol.Scope = GlobalScope
        THEN Result(emit(c, OpGetGlobal, <<found.symbol.Index>>), "")
        ELSE Result(emit(c, OpGetLocal, <<found.symbol.Index>>), "")

\* c.emit(code.OpConstant, c.addConstant(obj)); the object gets the next id
EmitConstant(c, obj) ==
    emit(addConstant(c, [obj EXCEPT !.id = Len(c.constants) + 1]),
         OpConstant, <<Len(c.constants)>>)

\* case *ast.FunctionLiteral
CompileFunction(node, c) ==
    LET r == Compile(node.kids[1], enterScope(c))
    IN  IF r.panic # "" THEN r
        ELSE IF r.err # ""
        THEN Result(r.c, "comp: Compile(): (FunctionLiteral) compilation failed. " \o r.err)
        ELSE LET r1 == IF lastInstructionIs(r.c, OpPop)
                       THEN replaceLastPopWithReturn(r.c) ELSE Result(r.c, "")
                 c2 == IF ~lastInstructionIs(r1.c, OpReturnValue)
                       THEN emit(r1.c, OpReturn, <<>>) ELSE r1.c
                 instructions == currentInstructions(c2)
                 c3 == leaveScope(c2)
             IN  IF r1.panic # "" THEN r1
                 ELSE Result(EmitConstant(c3, CompiledFunction(instructions, 0)), "")

\* func (c *Compiler) Compile(node ast.Node) error
Compile(node, c) ==
    CASE node = NilLetStatement -> Panicking(c, NilDereference)
      [] node.kind = "program" -> CompileStatements(node.kids, 1, c)
      [] node.kind = "exprstmt" ->
            LET r == Compile(node.kids[1], c)
            IN  IF Failed(r) THEN r ELSE Result(emit(r.c, OpPop, <<>>), "")
      [] node.kind = "prefix" -> CompilePrefix(node, c)
      [] node.kind = "block" -> CompileStatements(node.kids, 1, c)
      [] node.kind = "infix" -> CompileInfix(node, c)
      [] node.kind = "if" -> CompileIf(node, c)
      [] node.kind = "int" -> Result(EmitConstant(c, Integer(node.n, 0)), "")
      [] node.kind = "bool" ->
            IF node.n = 1 THEN Result(emit(c, OpTrue, <<>>), "")
            ELSE Result(emit(c, OpFalse, <<>>), "")
      [] node.kind = "let" -> CompileLet(node, c)
      [] node.kind = "ident" -> CompileIdentifier(node, c)
      [] node.kind = "str" -> Result(EmitConstant(c, String(node.s, 0)), "")
      [] node.kind = "array" ->
            LET r == CompileElements(node.kids, 1, c)
            IN  IF Failed(r) THEN r
                ELSE Result(emit(r.c, OpArray, <<Len(node.kids)>>), "")
      [] node.kind = "hash" ->
            IF SortPanics(node) THEN Panicking(AfterMapRange(c), NilDereference)
            ELSE
            LET r == CompilePairs(node, HashKeyOrder(c, node), 1, AfterMapRange(c))
            IN  IF Failed(r) THEN r
                ELSE Result(emit(r.c, OpHash, <<(Len(node.kids) \div 2) * 2>>), "")
      [] node.kind = "index" ->
            LET r1 == Compile(node.kids[1], c)
            IN  IF Failed(r1) THEN r1
                ELSE LET r2 == Compile(node.kids[2], r1.c)
                     IN  IF Failed(r2) THEN r2
                         ELSE Result(emit(r2.c, OpIndex, <<>>), "")
      [] node.kind = "fn" -> CompileFunction(node, c)
      [] node.kind = "return" ->
            LET r == Compile(node.kids[1], c)
            IN  IF r.panic # "" THEN r
                ELSE IF r.err # ""
                THEN Result(r.c, "comp: Compile(): (ReturnStatement) compilation failed. " \o r.err)
                ELSE Result(emit(r.c, OpReturnValue, <<>>), "")
      [] node.kind = "call" ->
            LET r == Compile(node.kids[1], c)
            IN  IF r.panic # "" THEN r
                ELSE IF r.err # ""
                THEN Result(r.c, "comp: Compile(): (CallExpression) compilation failed. " \o r.err)
                ELSE Result(emit(r.c, OpCall, <<>>), "")
      [] OTHER -> Result(c, "")

\* type Bytecode struct { Instructions; Constants }
Bytecode(c) == [Instructions |-> currentInstructions(c), Constants |-> c.constants]

(***************************************************************************)
(* package vm.  stack, globals and frames are Go arrays of fixed length    *)
(* whose slots start nil; each is kept here as the prefix up to the last   *)
(* slot ever written, and a slot beyond it reads as Nil.  globals is a     *)
(* slice: globalsLen is its length, len(vm.globals).                       *)
(***************************************************************************)
StackSize == 2048
GlobalSize == 65536
MaxFrames == 1024

\* the Go runtime panics that end Run
DivideByZero == "panic: runtime error: integer divide by zero"
UnknownOpCodePanic == "panic: VM: run(): Encountered unknown OpCode"

\* what a read outside an array is: no object, the runtime panics
OutOfRange == Object(IndexOutOfRange, 0, <<>>, <<>>, <<>>, 0)

\* arr[i] of a Go array of size elements, kept as its written prefix
SlotAt(arr, size, i) ==
    IF i < 0 \/ i >= size THEN OutOfRange
    ELSE IF i < Len(arr) THEN arr[i + 1] ELSE Nil

\* arr[i] = o
SlotPut(arr, i, o) ==
    IF i < Len(arr) THEN [arr EXCEPT ![i + 1] = o]
    ELSE arr \o [k \in 1..(i - Len(arr)) |-> Nil] \o <<o>>

\* type Frame struct { fn; ip };  func NewFrame(fn) *Frame
NewFrame(fn) == [fn |-> fn, ip |-> -1]

\* func (f *Frame) Instructions() code.Instructions
Instructions(f) == f.fn.ins

\* func New(bytecode *compiler.Bytecode) *VM.  allocs counts the objects
\* allocated so far (the constants among them): the next one gets allocs + 1.
NewVM(bytecode) ==
    [constants |-> bytecode.Constants,
     stack |-> <<>>,
     sp |-> 0,
     globals |-> <<>>,
     globalsLen |-> GlobalSize,
     frames |-> << NewFrame(CompiledFunction(bytecode.Instructions, 0)) >>,
     framesIndex |-> 1,
     allocs |-> Len(bytecode.Constants) + 1]

\* func NewWithGlobalStore(bytecode, s) *VM: vm.globals = s, the slice with
\* the length it has
NewWithGlobalStore(bytecode, s) ==
    [NewVM(bytecode) EXCEPT !.globals = s, !.globalsLen = Len(s)]

\* func (vm *VM) currentFrame() *Frame
currentFrame(v) == v.frames[v.framesIndex]

\* func (vm *VM) pushFrame(f *Frame)
pushFrame(v, f) ==
    [v EXCEPT !.frames = SlotPut(@, v.framesIndex, f), !.framesIndex = @ + 1]

\* vm.frames[vm.framesIndex] = f with the array full is an index out of range
pushFramePanics(v) == v.framesIndex >= MaxFrames

\* popFrame's vm.frames[vm.framesIndex], after the decrement, with no frame
\* left is an index out of range
popFramePanics(v) == v.framesIndex - 1 < 0

\* func (vm *VM) popFrame() *Frame: the VM afterwards
popFrame(v) == [v EXCEPT !.framesIndex = @ - 1]

\* vm.currentFrame().ip = ip
SetIp(v, ip) == [v EXCEPT !.frames[v.framesIndex].ip = ip]

\* what one iteration of Run's loop ends in: the VM, the error it returns
\* ("" is nil: the loop goes on) or the panic that unwinds it ("" is none)
Outcome(v, err, panic) == [vm |-> v, err |-> err, panic |-> panic]
Continue(v) == Outcome(v, "", "")
Return(v, err) == Outcome(v, err, "")
Panic(v, what) == Outcome(v, "", what)

\* a push that lets one value too many in
pushPastCapacity(v, o) ==
    IF v.sp > StackSize THEN Return(v, "vm: stack overflow")
    ELSE Continue([v EXCEPT !.stack = SlotPut(@, v.sp, o), !.sp = @ + 1])

\* func (vm *VM) push(o object.Object) error
push(v, o) ==
    IF v.sp >= StackSize THEN Return(v, "vm: stack overflow")
    ELSE Continue([v EXCEPT !.stack = SlotPut(@, v.sp, o), !.sp = @ + 1])

\* func (vm *VM) pop() object.Object: stack[sp-1] with sp < 1 is an index out
\* of range
popPanics(v) == v.sp - 1 < 0
\* ... the object popped
popped(v) == SlotAt(v.stack, StackSize, v.sp - 1)
\* ... the VM afterwards
pop(v) == [v EXCEPT !.sp = @ - 1]

\* func (vm *VM) LastPoppedStackElem() object.Object: vm.stack[vm.sp], which
\* is OutOfRange (a panic) when the stack is full
LastPoppedStackElem(v) == SlotAt(v.stack, StackSize, v.sp)

\* func (vm *VM) StackTop() object.Object
StackTop(v) == IF v.sp = 0 THEN Nil ELSE SlotAt(v.stack, StackSize, v.sp - 1)

\* func isTruthy(obj object.Object) bool
isTruthyNonZero(obj) ==
    IF obj.type = BOOLEAN_OBJ THEN obj.n = 1
    ELSE IF obj.type = NULL_OBJ THEN FALSE
    ELSE IF obj.type = INTEGER_OBJ THEN obj.n # 0
    ELSE TRUE

isTruthy(obj) ==
    IF obj.type = BOOLEAN_OBJ THEN obj.n = 1
    ELSE IF obj.type = NULL_OBJ THEN FALSE
    ELSE TRUE

\* func nativeBoolToBooleanObject(input bool) *object.Boolean
nativeBoolToBooleanObject(input) == IF input THEN True ELSE False

\* Go's a / b on integers: the quotient truncated toward zero
\* a quotient rounded down instead of toward zero
GoDivFloor(a, b) ==
    LET abs(x) == IF x < 0 THEN -x ELSE x
        q == abs(a) \div abs(b)
    IN  IF (a < 0) # (b < 0)
        THEN (IF q * abs(b) = abs(a) THEN -q ELSE -q - 1)
        ELSE q

GoDiv(a, b) ==
    LET abs(x) == IF x < 0 THEN -x ELSE x
        q == abs(a) \div abs(b)
    IN  IF (a < 0) # (b < 0) THEN -q ELSE q

\* func (vm *VM) executeBinaryIntegerOperation(op, left, right) error
executeBinaryIntegerOperation(v, op, left, right) ==
    IF op = OpDiv /\ right.n = 0 THEN Panic(v, DivideByZero)
    ELSE LET result == CASE op = OpAdd -> left.n + right.n
                         [] op = OpSub -> left.n - right.n
                         [] op = OpMul -> left.n * right.n
                         [] op = OpDiv -> GoDiv(left.n, right.n)
                         [] OTHER -> 0
         IN  push([v EXCEPT !.allocs = @ + 1], Integer(Wrap64(result), v.allocs + 1))

\* a string operation that concatenates whatever the operator is
executeBinaryStringOperationAnyOperator(v, op, left, right) ==
    push([v EXCEPT !.allocs = @ + 1], String(left.s \o right.s, v.allocs + 1))

\* func (vm *VM) executeBinaryStringOperation(op, left, right) error
executeBinaryStringOperation(v, op, left, right) ==
    IF op # OpAdd
    THEN Return(v, "vm: executeBinaryOperation: unknown string operator")
    ELSE push([v EXCEPT !.allocs = @ + 1], String(left.s \o right.s, v.allocs + 1))

\* func (vm *VM) executeBinaryOperation(op code.Opcode) error: right := vm.pop()
\* and then left := vm.pop(), each an index out of range on an empty stack
executeBinaryOperation(v, op) ==
    IF popPanics(v) THEN Panic(v, IndexOutOfRange)
    ELSE IF popPanics(pop(v)) THEN Panic(pop(v), IndexOutOfRange)
    ELSE LET right == popped(v)
             v1 == pop(v)
             left == popped(v1)
             v2 == pop(v1)
         IN  IF left.type = "nil" \/ right.type = "nil" THEN Panic(v2, NilDereference)
             ELSE IF left.type = INTEGER_OBJ /\ right.type = INTEGER_OBJ
             THEN executeBinaryIntegerOperation(v2, op, left, right)
             ELSE IF left.type = STRING_OBJ /\ right.type = STRING_OBJ
             THEN executeBinaryStringOperation(v2, op, left, right)
             ELSE Return(v2, "unsupported types for binary operation")

\* func (vm *VM) executeIntegerComparison(op, left, right) error
executeIntegerComparison(v, op, left, right) ==
    CASE op = OpEqual -> push(v, nativeBoolToBooleanObject(right.n = left.n))
      [] op = OpNotEqual -> push(v, nativeBoolToBooleanObject(right.n # left.n))
      [] op = OpGreaterThan -> push(v, nativeBoolToBooleanObject(left.n > right.n))
      [] OTHER -> Return(v, "unknown operator")

\* a comparison that takes two objects of equal content for equal
executeComparisonByContent(v, op) ==
    IF popPanics(v) THEN Panic(v, IndexOutOfRange)
    ELSE IF popPanics(pop(v)) THEN Panic(pop(v), IndexOutOfRange)
    ELSE LET right == popped(v)
             left == popped(pop(v))
             v2 == pop(pop(v))
             same == [right EXCEPT !.id = 0] = [left EXCEPT !.id = 0]
         IN  CASE op = OpEqual -> push(v2, nativeBoolToBooleanObject(same))
               [] op = OpNotEqual -> push(v2, nativeBoolToBooleanObject(~same))
               [] OTHER -> push(v2, nativeBoolToBooleanObject(left.n > right.n))

\* func (vm *VM) executeComparison(op code.Opcode) error.  right == left on
\* two objects compares the pointers: here, the records with their ids.
\* The two pops come first, each an index out of range on an empty stack.
executeComparison(v, op) ==
    IF popPanics(v) THEN Panic(v, IndexOutOfRange)
    ELSE IF popPanics(pop(v)) THEN Panic(pop(v), IndexOutOfRange)
    ELSE LET right == popped(v)
             v1 == pop(v)
             left == popped(v1)
             v2 == pop(v1)
         IN  IF left.type = "nil" \/ right.type = "nil"
             THEN Return(v2, "vm: executeComparison: cannot compare nil values")
             ELSE IF left.type = INTEGER_OBJ /\ right.type = INTEGER_OBJ
             THEN executeIntegerComparison(v2, op, left, right)
             ELSE CASE op = OpEqual -> push(v2, nativeBoolToBooleanObject(right = left))
                    [] op = OpNotEqual -> push(v2, nativeBoolToBooleanObject(right # left))
                    [] OTHER -> Return(v2, "unknown operator")

\* func (vm *VM) executeBangOperator() error
executeBangOperator(v) ==
    IF popPanics(v) THEN Panic(v, IndexOutOfRange)
    ELSE LET operand == popped(v)
             v1 == pop(v)
         IN  CASE operand = True -> push(v1, False)
               [] operand = False -> push(v1, True)
               [] operand = Null -> push(v1, True)
               [] OTHER -> push(v1, False)

\* func (vm *VM) executeMinusOperator() error
executeMinusOperator(v) ==
    IF popPanics(v) THEN Panic(v, IndexOutOfRange)
    ELSE LET operand == popped(v)
             v1 == pop(v)
         IN  IF operand.type = "nil" THEN Panic(v1, NilDereference)
             ELSE IF operand.type # INTEGER_OBJ
             THEN Return(v1, "vm: unsupported type for negation")
             ELSE push([v1 EXCEPT !.allocs = @ + 1],
                       Integer(Wrap64(-operand.n), v1.allocs + 1))

\* func (vm *VM) buildArray(startIndex, endIndex int) object.Object
\* (startIndex < 0 is an index out of range: see ExecuteArray)
buildArray(v, startIndex, endIndex) ==
    Array([k \in 1..(endIndex - startIndex) |-> SlotAt(v.stack, StackSize, startIndex + k - 1)],
          v.allocs + 1)

\* object.Hashable: Integer, Boolean and String have a HashKey method
Hashable(obj) == obj.type \in {INTEGER_OBJ, BOOLEAN_OBJ, STRING_OBJ}

\* HashKey{Type, Value}: the value is the integer, 0/1, or the FNV-1a hash of
\* the text, which is kept as the text itself (no two texts explored collide)
HashKey(obj) == <<obj.type, obj.n, obj.s>>

\* hashedPairs[hashKey] = pair, on pairs kept flat in order of first insertion
RECURSIVE PutPair(_, _, _, _)
PutPair(flat, i, key, value) ==
    IF i > Len(flat) THEN flat \o <<key, value>>
    ELSE IF HashKey(flat[i]) = HashKey(key)
    THEN [flat EXCEPT ![i] = key, ![i + 1] = value]
    ELSE PutPair(flat, i + 2, key, value)

\* buildHash's loop from stack slot i on: the pairs, or the first slot whose
\* key is not Hashable, or OutOfRange when vm.stack[i] or vm.stack[i+1] lies
\* outside the stack
RECURSIVE BuildPairs(_, _, _, _)
BuildPairs(v, i, endIndex, flat) ==
    IF i >= endIndex THEN [ok |-> TRUE, flat |-> flat, bad |-> Nil]
    ELSE LET key == SlotAt(v.stack, StackSize, i)
             value == SlotAt(v.stack, StackSize, i + 1)
         IN  IF OutOfRange \in {key, value} THEN [ok |-> FALSE, flat |-> flat, bad |-> OutOfRange]
             ELSE IF ~Hashable(key) THEN [ok |-> FALSE, flat |-> flat, bad |-> key]
             ELSE BuildPairs(v, i + 2, endIndex, PutPair(flat, 1, key, value))

\* case code.OpConstant
ExecuteConstant(v, constIndex) ==
    IF constIndex >= Len(v.constants) THEN Panic(v, IndexOutOfRange)
    ELSE push(v, v.constants[constIndex + 1])

\* case code.OpPop
ExecutePop(v) == IF popPanics(v) THEN Panic(v, IndexOutOfRange) ELSE Continue(pop(v))

\* case code.OpJumpNotTruthy (ip is already past the operand)
ExecuteJumpNotTruthy(v, pos) ==
    IF popPanics(v) THEN Panic(v, IndexOutOfRange)
    ELSE LET condition == popped(v)
             v1 == pop(v)
         IN  IF ~isTruthy(condition) THEN Continue(SetIp(v1, pos - 1)) ELSE Continue(v1)

\* case code.OpSetGlobal: vm.globals[globalIndex] = vm.pop(), the index
\* checked against len(vm.globals) once pop has returned
ExecuteSetGlobal(v, globalIndex) ==
    IF popPanics(v) THEN Panic(v, IndexOutOfRange)
    ELSE IF globalIndex >= v.globalsLen THEN Panic(pop(v), IndexOutOfRange)
    ELSE Continue([pop(v) EXCEPT !.globals = SlotPut(@, globalIndex, popped(v))])

\* case code.OpGetGlobal: vm.push(vm.globals[globalIndex])
ExecuteGetGlobal(v, globalIndex) ==
    IF SlotAt(v.globals, v.globalsLen, globalIndex) = OutOfRange
    THEN Panic(v, IndexOutOfRange)
    ELSE push(v, SlotAt(v.globals, v.globalsLen, globalIndex))

\* case code.OpArray
ExecuteArray(v, numElements) ==
    IF v.sp - numElements < 0 THEN Panic(v, IndexOutOfRange)
    ELSE LET array == buildArray(v, v.sp - numElements, v.sp)
             r == push([v EXCEPT !.sp = v.sp - numElements, !.allocs = @ + 1], array)
         IN  IF r.err # ""
             THEN Return(r.vm, "vm: Run(OpArray): failed to push array to stack. " \o r.err)
             ELSE r

\* case code.OpHash
ExecuteHash(v, numElements) ==
    IF numElements > 0 /\ v.sp - numElements < 0 THEN Panic(v, IndexOutOfRange)
    ELSE LET built == BuildPairs(v, v.sp - numElements, v.sp, <<>>)
         IN  IF ~built.ok
             THEN IF built.bad = OutOfRange THEN Panic(v, IndexOutOfRange)
                  ELSE IF built.bad.type = "nil" THEN Panic(v, NilDereference)
                  ELSE Return(v, "vm: Run(): unable to build Hash. vm: buildHash: unusable as hash key")
             ELSE LET r == push([v EXCEPT !.sp = v.sp - numElements, !.allocs = @ + 1],
                                Hash(built.flat, v.allocs + 1))
                  IN  IF r.err # ""
                      THEN Return(r.vm, "vm: Run(): failed to push hash to stack. " \o r.err)
                      ELSE r

\* an array index that counts a negative index from the end
executeArrayIndexFromEnd(v, array, index) ==
    LET i == IF index.n < 0 THEN Len(array.elems) + index.n ELSE index.n
        max == Len(array.elems) - 1
    IN  IF i < 0 \/ i > max THEN push(v, Null) ELSE push(v, array.elems[i + 1])

\* func (vm *VM) executeArrayIndex(array, index object.Object) error
executeArrayIndex(v, array, index) ==
    LET i == index.n
        max == Len(array.elems) - 1
    IN  IF i < 0 \/ i > max THEN push(v, Null) ELSE push(v, array.elems[i + 1])

\* pair, ok := hashObject.Pairs[key.HashKey()]: the place of the pair's key
\* in the flat pairs, 0 when there is none
RECURSIVE FindPair(_, _, _)
FindPair(flat, i, key) ==
    IF i > Len(flat) THEN 0
    ELSE IF HashKey(flat[i]) = HashKey(key) THEN i
    ELSE FindPair(flat, i + 2, key)

\* func (vm *VM) executeHashIndex(hash, index object.Object) error
executeHashIndex(v, hash, index) ==
    IF index.type = "nil" THEN Panic(v, NilDereference)
    ELSE IF ~Hashable(index)
    THEN Return(v, "vm: executeHashIndex: not a Hashable key")
    ELSE LET at == FindPair(hash.elems, 1, index)
         IN  IF at = 0 THEN push(v, Null) ELSE push(v, hash.elems[at + 1])

\* func (vm *VM) executeIndexExpression(left, index object.Object) error
executeIndexExpression(v, left, index) ==
    IF left.type = "nil" THEN Panic(v, NilDereference)
    ELSE IF left.type = ARRAY_OBJ /\ index.type = "nil" THEN Panic(v, NilDereference)
    ELSE IF left.type = ARRAY_OBJ /\ index.type = INTEGER_OBJ
    THEN executeArrayIndex(v, left, index)
    ELSE IF left.type = HASH_OBJ THEN executeHashIndex(v, left, index)
    ELSE Return(v, "vm: executeIndexExpression: index operator not supported")

\* case code.OpIndex: index := vm.pop(); left := vm.pop(), each an index out
\* of range on an empty stack
ExecuteIndex(v) ==
    IF popPanics(v) THEN Panic(v, IndexOutOfRange)
    ELSE IF popPanics(pop(v)) THEN Panic(pop(v), IndexOutOfRange)
    ELSE LET index == popped(v)
             v1 == pop(v)
             left == popped(v1)
             v2 == pop(v1)
         IN  executeIndexExpression(v2, left, index)

\* default: ... panic(errString)
ExecuteDefault(v, op) == Panic(v, UnknownOpCodePanic)

\* the operand the cases with a two-byte operand read: ReadUint16(ins[ip+1:])
\* (fewer than two bytes left is an index out of range)
OperandMissing(ins, ip) == ip + 3 > Len(ins)
Operand(ins, ip) == ReadUint16(SliceFrom(ins, ip + 1))

\* the switch of Run's loop on op, fetched at ip of ins; v has ip stored
Execute(v, op, ins, ip) ==
    CASE op \in {OpConstant, OpJumpNotTruthy, OpSetGlobal, OpGetGlobal, OpArray, OpHash}
              /\ OperandMissing(ins, ip) -> Panic(v, IndexOutOfRange)
      [] op = OpJump /\ OperandMissing(ins, ip) -> Panic(v, IndexOutOfRange)
      [] op = OpConstant -> ExecuteConstant(SetIp(v, ip + 2), Operand(ins, ip))
      [] op \in {OpAdd, OpSub, OpMul, OpDiv} -> executeBinaryOperation(v, op)
      [] op = OpTrue -> push(v, True)
      [] op = OpFalse -> push(v, False)
      [] op \in {OpEqual, OpNotEqual, OpGreaterThan} -> executeComparison(v, op)
      [] op = OpBang -> executeBangOperator(v)
      [] op = OpMinus -> executeMinusOperator(v)
      [] op = OpPop -> ExecutePop(v)
      [] op = OpJump -> Continue(SetIp(v, Operand(ins, ip) - 1))
      [] op = OpJumpNotTruthy -> ExecuteJumpNotTruthy(SetIp(v, ip + 2), Operand(ins, ip))
      [] op = OpNull -> push(v, Null)
      [] op = OpSetGlobal -> ExecuteSetGlobal(SetIp(v, ip + 2), Operand(ins, ip))
      [] op = OpGetGlobal -> ExecuteGetGlobal(SetIp(v, ip + 2), Operand(ins, ip))
      [] op = OpArray -> ExecuteArray(SetIp(v, ip + 2), Operand(ins, ip))
      [] op = OpHash -> ExecuteHash(SetIp(v, ip + 2), Operand(ins, ip))
      [] op = OpIndex -> ExecuteIndex(v)
      [] OTHER -> ExecuteDefault(v, op)

\* the opcodes Run's switch has a case for
HandledOpcodes ==
    {OpConstant, OpAdd, OpSub, OpMul, OpDiv, OpTrue, OpFalse, OpEqual, OpNotEqual,
     OpGreaterThan, OpBang, OpMinus, OpPop, OpJump, OpJumpNotTruthy, OpNull,
     OpSetGlobal, OpGetGlobal, OpArray, OpHash, OpIndex}

\* for vm.currentFrame().ip < len(vm.currentFrame().Instructions())-1
LoopCondition(v) == currentFrame(v).ip < Len(Instructions(currentFrame(v))) - 1

\* the opcode the next iteration fetches: ins[ip] after ip++
NextOp(v) == Instructions(currentFrame(v))[currentFrame(v).ip + 2]

\* one iteration of the loop of func (vm *VM) Run() error
RunIteration(v) ==
    LET ip == currentFrame(v).ip + 1
        ins == Instructions(currentFrame(v))
    IN  Execute(SetIp(v, ip), ins[ip + 1], ins, ip)

(***************************************************************************)
(* The programs explored: an optional `let x = 1;` followed by one         *)
(* statement, or a run of top-level lets of x and y followed by one of the *)
(* two names.  u is never bound.                                           *)
(***************************************************************************)
\* integer literals are 0..MaxInt
MaxInt == 2
\* a hash literal has at most MaxPairs pairs, an array literal MaxElems elements
MaxPairs == 2
MaxElems == 2
\* a program of top-level lets has at most MaxLets of them
MaxLets == 3

NameX == <<120>>
NameY == <<121>>
NameU == <<117>>
TextA == <<97>>
TextOne == <<49>>

Atoms ==
    {IntegerLiteral(n) : n \in 0..MaxInt}
    \cup {Boolean(TRUE), Boolean(FALSE), Identifier(NameX), Identifier(NameU),
          StringLiteral(TextA)}

\* every operator the parser knows, and one it does not
PrefixOperators == {"!", "-", "~"}
InfixOperators == {"+", "-", "*", "/", ">", "<", "==", "!=", "%"}

PrefixExprs == {PrefixExpression(op, r) : op \in PrefixOperators, r \in Atoms}
InfixExprs == {InfixExpression(l, op, r) : l \in Atoms, op \in InfixOperators, r \in Atoms}

\* integer literals with and without a sign, the four arithmetic operators on
\* two of them, and the negation of one
SignedLiterals ==
    {IntegerLiteral(n) : n \in 0..MaxInt}
    \cup {PrefixExpression("-", IntegerLiteral(n)) : n \in 0..MaxInt}

SignedExprs ==
    {InfixExpression(l, op, r) :
        l \in SignedLiterals, op \in {"+", "-", "*", "/"}, r \in SignedLiterals}
    \cup {PrefixExpression("-", s) : s \in SignedLiterals}

\* operators on two string literals, alike and different
StringExprs ==
    {InfixExpression(StringLiteral(l), op, StringLiteral(r)) :
        l \in {TextA, TextOne}, op \in {"+", "-", "==", "!="}, r \in {TextA, TextOne}}

\* sequences over S of length 0..n
SeqsUpTo(S, n) == UNION {[1..k -> S] : k \in 0..n}

\* array literals, and index expressions on them
ArrayExprs == {ArrayLiteral(es) : es \in SeqsUpTo(Atoms \ {StringLiteral(TextA)}, MaxElems)}
IndexExprs ==
    {IndexExpression(l, i) :
        l \in {ArrayLiteral(<<>>), ArrayLiteral(<<IntegerLiteral(1), IntegerLiteral(2)>>),
               Identifier(NameX), Boolean(TRUE),
               HashLiteral(<<IntegerLiteral(1), IntegerLiteral(2)>>)},
        i \in {IntegerLiteral(n) : n \in 0..MaxInt}
              \cup {PrefixExpression("-", IntegerLiteral(1)), Boolean(TRUE),
                    ArrayLiteral(<<>>), Identifier(NameU)}}

\* hash literals: keys that stringify alike (1 and "1"), a key that is not
\* hashable, a key that does not compile
HashKeys == {IntegerLiteral(1), StringLiteral(TextOne), IntegerLiteral(2), Boolean(TRUE),
             ArrayLiteral(<<>>), Identifier(NameU)}
HashValues == {IntegerLiteral(1), IntegerLiteral(2)}
RECURSIVE Flatten(_)
Flatten(pairs) ==
    IF Len(pairs) = 0 THEN <<>> ELSE pairs[1] \o Flatten(Tail(pairs))
HashExprs ==
    {HashLiteral(Flatten(ps)) : ps \in SeqsUpTo(HashKeys \X HashValues, MaxPairs)}

\* blocks without an if-expression inside
PlainBlocks ==
    {BlockStatement(ss) : ss \in
        {<<>>,
         <<ExpressionStatement(IntegerLiteral(1))>>,
         <<LetStatement(NameY, IntegerLiteral(1))>>,
         <<ExpressionStatement(IntegerLiteral(1)), ExpressionStatement(IntegerLiteral(2))>>,
         <<ExpressionStatement(IntegerLiteral(1)), LetStatement(NameY, IntegerLiteral(2))>>,
         <<ExpressionStatement(Identifier(NameU))>>,
         <<ReturnStatement(IntegerLiteral(1))>>}}

Conditions == {Boolean(TRUE), Boolean(FALSE), IntegerLiteral(1), Identifier(NameX)}

\* if-expressions whose branches each bind a global of their own before they
\* yield a value, under conditions of every type (0, a string and an empty
\* array are truthy, a Null condition is falsy)
EffectIfs ==
    LET conds == Conditions
                 \cup {IntegerLiteral(0), StringLiteral(TextA), ArrayLiteral(<<>>),
                       PrefixExpression("!", Boolean(TRUE)),
                       IfExpression(Boolean(FALSE),
                                    BlockStatement(<<ExpressionStatement(IntegerLiteral(1))>>))}
        cons == BlockStatement(<<LetStatement(NameY, IntegerLiteral(1)),
                                 ExpressionStatement(IntegerLiteral(1))>>)
        alt  == BlockStatement(<<LetStatement(NameY, IntegerLiteral(2)),
                                 ExpressionStatement(IntegerLiteral(2))>>)
    IN  {IfElseExpression(c, cons, alt) : c \in conds}
        \cup {IfExpression(c, cons) : c \in conds}

\* if-expressions whose blocks hold no further if
InnerIfs ==
    {IfExpression(c, b) : c \in {Boolean(TRUE), Boolean(FALSE)}, b \in PlainBlocks}
    \cup {IfElseExpression(c, b, a) :
            c \in {Boolean(TRUE), Boolean(FALSE)},
            b \in {BlockStatement(<<>>), BlockStatement(<<ExpressionStatement(IntegerLiteral(1))>>)},
            a \in {BlockStatement(<<>>), BlockStatement(<<ExpressionStatement(IntegerLiteral(2))>>)}}

\* blocks that end in, or hold, an if-expression
NestingBlocks ==
    {BlockStatement(<<ExpressionStatement(i)>>) : i \in InnerIfs}
    \cup {BlockStatement(<<ExpressionStatement(i), ExpressionStatement(IntegerLiteral(2))>>) :
            i \in InnerIfs}

IfExprs ==
    {IfExpression(c, b) : c \in Conditions, b \in PlainBlocks \cup NestingBlocks}
    \cup {IfElseExpression(c, b, a) : c \in Conditions, b \in PlainBlocks, a \in PlainBlocks}
    \cup {IfElseExpression(c, b, a) :
            c \in {Boolean(TRUE), Boolean(FALSE)}, b \in NestingBlocks,
            a \in {BlockStatement(<<>>), BlockStatement(<<ExpressionStatement(IntegerLiteral(2))>>)}}
    \cup {IfElseExpression(c, b, a) :
            c \in {Boolean(TRUE), Boolean(FALSE)},
            b \in {BlockStatement(<<>>), BlockStatement(<<ExpressionStatement(IntegerLiteral(1))>>)},
            a \in NestingBlocks}
    \cup {IfExpression(i, BlockStatement(<<ExpressionStatement(IntegerLiteral(1))>>)) :
            i \in InnerIfs}
    \cup EffectIfs

\* operands that emit several instructions before they fail, or that fail
\* after a jump was emitted
Operands ==
    {IntegerLiteral(1), IntegerLiteral(2), Identifier(NameU), Identifier(NameX),
     InfixExpression(IntegerLiteral(1), "+", Identifier(NameU)),
     InfixExpression(IntegerLiteral(1), "+", IntegerLiteral(2)),
     InfixExpression(IntegerLiteral(1), "%", IntegerLiteral(2)),
     ArrayLiteral(<<IntegerLiteral(1), Identifier(NameU)>>),
     IfExpression(Boolean(TRUE), BlockStatement(<<ExpressionStatement(Identifier(NameU))>>)),
     IfExpression(Boolean(FALSE), BlockStatement(<<ExpressionStatement(Identifier(NameU))>>)),
     IfExpression(Boolean(FALSE), BlockStatement(<<ExpressionStatement(IntegerLiteral(1))>>)),
     IfExpression(Boolean(TRUE), BlockStatement(<<>>))}
NestedExprs ==
    {InfixExpression(l, op, r) : l \in Operands, op \in {"<", "+", "=="}, r \in Operands}
    \cup {PrefixExpression(op, r) : op \in {"!", "-"}, r \in Operands}
    \cup {ArrayLiteral(<<l, r>>) : l \in Operands, r \in Operands}

\* function literals, and calls
FunctionExprs == {FunctionLiteral(b) : b \in PlainBlocks \cup NestingBlocks}
CallExprs ==
    {CallExpression(f) :
        f \in {FunctionLiteral(BlockStatement(<<>>)),
               FunctionLiteral(BlockStatement(<<ExpressionStatement(IntegerLiteral(1))>>)),
               Identifier(NameX), Identifier(NameU)}}

Expressions ==
    Atoms \cup PrefixExprs \cup InfixExprs \cup SignedExprs \cup StringExprs \cup ArrayExprs \cup IndexExprs \cup HashExprs
    \cup IfExprs \cup NestedExprs \cup FunctionExprs \cup CallExprs

Statements ==
    {ExpressionStatement(e) : e \in Expressions}
    \cup {LetStatement(NameY, e) : e \in Atoms \cup IfExprs \cup FunctionExprs}
    \cup {ReturnStatement(e) : e \in Atoms}

Preludes == {<<>>, <<LetStatement(NameX, IntegerLiteral(1))>>}

\* top-level lets of x and y, up to MaxLets of them, and then one of the names
LetStatements ==
    {LetStatement(n, e) : n \in {NameX, NameY},
                          e \in {IntegerLiteral(1), IntegerLiteral(2), Identifier(NameX)}}

LetPrograms ==
    {Program(ls \o <<ExpressionStatement(Identifier(n))>>) :
        ls \in SeqsUpTo(LetStatements, MaxLets), n \in {NameX, NameY}}

\* a let of y inside the consequence of an if, and then y
BranchLetPrograms ==
    {Program(<<ExpressionStatement(
                  IfExpression(c, BlockStatement(<<LetStatement(NameY, IntegerLiteral(1)),
                                                   ExpressionStatement(IntegerLiteral(1))>>))),
               ExpressionStatement(Identifier(NameY))>>) :
        c \in {Boolean(TRUE), Boolean(FALSE)}}

\* what the parser makes of `let = 1` (the helper of the VM tests compiles it
\* whatever the parser's errors): a nil *ast.LetStatement, an expression
\* statement without expression, and 1
NilLetPrograms ==
    {Program(<<NilLetStatement, ExpressionStatement(NilNode),
               ExpressionStatement(IntegerLiteral(1))>>)}

\* 1 < fn() { u }: the function literal fails inside its scope and < answers
\* the error with nil; alone, and as the last statement of a branch of an if
LeakingLess ==
    InfixExpression(IntegerLiteral(1), "<",
        FunctionLiteral(BlockStatement(<<ExpressionStatement(Identifier(NameU))>>)))
ScopeLeakPrograms ==
    {Program(<<ExpressionStatement(e)>>) : e \in
        {LeakingLess,
         IfExpression(IntegerLiteral(1), BlockStatement(<<ExpressionStatement(LeakingLess)>>)),
         IfExpression(PrefixExpression("!", Boolean(TRUE)),
                      BlockStatement(<<ExpressionStatement(LeakingLess)>>)),
         IfElseExpression(Boolean(TRUE),
                          BlockStatement(<<ExpressionStatement(IntegerLiteral(1))>>),
                          BlockStatement(<<ExpressionStatement(LeakingLess)>>))}}

\* {1: 1, "1": 2}; {1: 1, "1": 2}: two hash literals whose keys have the same
\* String(), each ranged in an order of its own
TwoHashPrograms ==
    {Program(<<ExpressionStatement(h), ExpressionStatement(h)>>) : h \in
        {HashLiteral(<<IntegerLiteral(1), IntegerLiteral(1),
                       StringLiteral(TextOne), IntegerLiteral(2)>>)}}

Programs ==
    {Program(pre \o <<s>>) : pre \in Preludes, s \in Statements}
    \cup LetPrograms \cup BranchLetPrograms \cup NilLetPrograms
    \cup ScopeLeakPrograms \cup TwoHashPrograms

(***************************************************************************)
(* The state machine: what the test helpers and the REPL do with one       *)
(* program -- compiler.New(), Compile, vm.New(comp.Bytecode()), Run.       *)
(***************************************************************************)
\* the orders in which Go may range over the pairs of a hash literal
MapOrders ==
    {o \in [1..MaxPairs -> 1..MaxPairs] : \A i, j \in 1..MaxPairs : i # j => o[i] # o[j]}

\* the hash literals of a node: Compile ranges over a map once for each it meets
RECURSIVE RangeCount(_)
RECURSIVE RangeCountAll(_, _)
RangeCount(node) ==
    (IF node.kind = "hash" THEN 1 ELSE 0) + RangeCountAll(node.kids, 1)
RangeCountAll(nodes, i) ==
    IF i > Len(nodes) THEN 0 ELSE RangeCount(nodes[i]) + RangeCountAll(nodes, i + 1)

\* the orders a run may draw for n ranges, one after the other
MapOrderDraws(n) == IF n = 0 THEN {<<>>} ELSE [1..n -> MapOrders]

\* values of the variables a specification does not use
NoProgram == Program(<<>>)
NoCode == [op |-> 0, operands |-> <<>>, instruction |-> <<>>, read |-> <<>>, n |-> 0]
NoParser == NewParser(<<>>)
NoDisasm == [ins |-> <<>>, i |-> 0, out |-> <<>>]
NoRepl == [done |-> <<>>, out |-> <<>>]
NoFrameCall == [before |-> NewVM(Bytecode(New)), what |-> "", calls |-> 0]
NoPush == [before |-> NewVM(Bytecode(New)), object |-> Nil, err |-> "", calls |-> 0]

Init ==
    /\ program \in Programs
    /\ pc = "parsed"
    /\ comp = New
    /\ compErr = ""
    /\ comp2 = New
    /\ vm = NewVM(Bytecode(New))
    /\ runErr = ""
    /\ lastOp = -1
    /\ enc = NoCode
    /\ pushed = NoPush
    /\ frameCall = NoFrameCall
    /\ repl = NoRepl
    /\ parser = NoParser
    /\ disasm = NoDisasm

\* comp := compiler.New(); err := comp.Compile(program)
CompileProgram ==
    /\ pc = "parsed"
    /\ \E orders \in MapOrderDraws(RangeCount(program)) :
         LET r == Compile(program, [New EXCEPT !.mapOrder = orders])
         IN  /\ comp' = [r.c EXCEPT !.mapOrder = <<>>]
             /\ compErr' = r.err
             /\ pc' = IF r.panic # "" THEN "compile_panicked"
                      ELSE IF r.err = "" THEN "compiled" ELSE "compile_error"
    /\ UNCHANGED <<program, comp2, vm, runErr, lastOp, enc, pushed, frameCall, repl, parser, disasm>>

\* the same program compiled once more by a fresh compiler
CompileAgain ==
    /\ pc = "compiled"
    /\ \E orders \in MapOrderDraws(RangeCount(program)) :
         LET r == Compile(program, [New EXCEPT !.mapOrder = orders])
         IN  comp2' = [r.c EXCEPT !.mapOrder = <<>>]
    /\ pc' = "compiled_again"
    /\ UNCHANGED <<program, comp, compErr, vm, runErr, lastOp, enc, pushed, frameCall, repl, parser, disasm>>

\* vm := vm.New(comp.Bytecode())
StartVM ==
    /\ pc = "compiled"
    /\ vm' = NewVM(Bytecode(comp))
    /\ pc' = "running"
    /\ UNCHANGED <<program, comp, compErr, comp2, runErr, lastOp, enc, pushed, frameCall, repl, parser, disasm>>

\* one iteration of Run's for loop
RunStep ==
    /\ pc = "running"
    /\ LoopCondition(vm)
    /\ LET o == RunIteration(vm)
       IN  /\ vm' = o.vm
           /\ runErr' = IF o.panic # "" THEN o.panic ELSE o.err
           /\ pc' = IF o.panic # "" THEN "panicked"
                    ELSE IF o.err # "" THEN "faulted"
                    ELSE "running"
    /\ lastOp' = NextOp(vm)
    /\ UNCHANGED <<program, comp, compErr, comp2, enc, pushed, frameCall, repl, parser, disasm>>

\* the loop condition fails: return nil
RunReturn ==
    /\ pc = "running"
    /\ ~LoopCondition(vm)
    /\ pc' = "halted"
    /\ UNCHANGED <<program, comp, compErr, comp2, vm, runErr, lastOp, enc, pushed, frameCall, repl, parser, disasm>>

Next == CompileProgram \/ CompileAgain \/ StartVM \/ RunStep \/ RunReturn

Spec == Init /\ [][Next]_vars

(***************************************************************************)
(* Package code on its own: Make on one opcode and operand tuple, then     *)
(* ReadOperands on what Make returned.                                     *)
(***************************************************************************)
\* operand values at both ends of each width: 0.., ..255.., ..65535..
OperandValues ==
    (0..OperandSpan)
    \cup ((255 - OperandSpan)..(255 + OperandSpan))
    \cup ((65535 - OperandSpan)..(65535 + OperandSpan))

\* the widest operand list any definition has
MaxWidths == 1

OperandTuples == SeqsUpTo(OperandValues, MaxWidths + 1)

InitCode ==
    /\ enc \in {[op |-> o, operands |-> ops, instruction |-> <<>>, read |-> <<>>, n |-> 0] :
                  o \in 0..(OpSetLocal + UndefinedOps), ops \in OperandTuples}
    /\ pc = "operands"
    /\ program = NoProgram
    /\ comp = New
    /\ compErr = ""
    /\ comp2 = New
    /\ vm = NewVM(Bytecode(New))
    /\ runErr = ""
    /\ lastOp = -1
    /\ pushed = NoPush
    /\ frameCall = NoFrameCall
    /\ repl = NoRepl
    /\ parser = NoParser
    /\ disasm = NoDisasm

\* instruction := code.Make(op, operands...)
MakeInstruction ==
    /\ pc = "operands"
    /\ ~MakePanics(enc.op, enc.operands)
    /\ enc' = [enc EXCEPT !.instruction = Make(enc.op, enc.operands)]
    /\ pc' = "made"
    /\ UNCHANGED <<program, comp, compErr, comp2, vm, runErr, lastOp, pushed, frameCall, repl, parser, disasm>>

\* Make indexes def.OperandWidths past its end
MakeInstructionPanics ==
    /\ pc = "operands"
    /\ MakePanics(enc.op, enc.operands)
    /\ pc' = "panicked"
    /\ runErr' = IndexOutOfRange
    /\ UNCHANGED <<program, comp, compErr, comp2, vm, lastOp, enc, pushed, frameCall, repl, parser, disasm>>

\* def, err := code.Lookup(instruction[0]);
\* operandsRead, n := code.ReadOperands(def, instruction[1:])
ReadInstruction ==
    /\ pc = "made"
    /\ Len(enc.instruction) > 0
    /\ Defined(enc.instruction[1])
    /\ LET r == ReadOperands(Lookup(enc.instruction[1]), SliceFrom(enc.instruction, 1))
       IN  enc' = [enc EXCEPT !.read = r[1], !.n = r[2]]
    /\ pc' = "read"
    /\ UNCHANGED <<program, comp, compErr, comp2, vm, runErr, lastOp, pushed, frameCall, repl, parser, disasm>>

NextCode == MakeInstruction \/ MakeInstructionPanics \/ ReadInstruction

SpecCode == InitCode /\ [][NextCode]_vars

(***************************************************************************)
(* push on its own: VMs whose stack is nearly empty or nearly full, and a  *)
(* few pushes on each.                                                     *)
(***************************************************************************)
PushObjects == {Integer(7, 1), True, Null}

\* a VM whose stack holds sp values
VMWithStack(sp) == [NewVM(Bytecode(New)) EXCEPT !.stack = [k \in 1..sp |-> Null], !.sp = sp]

InitPush ==
    /\ vm \in {VMWithStack(sp) : sp \in (0..PushWindow) \cup ((StackSize - PushWindow)..StackSize)}
    /\ pushed = NoPush
    /\ pc = "push"
    /\ program = NoProgram
    /\ comp = New
    /\ compErr = ""
    /\ comp2 = New
    /\ runErr = ""
    /\ lastOp = -1
    /\ enc = NoCode
    /\ frameCall = NoFrameCall
    /\ repl = NoRepl
    /\ parser = NoParser
    /\ disasm = NoDisasm

\* err := vm.push(o)
Push ==
    /\ pc = "push"
    /\ pushed.calls <= PushWindow
    /\ \E o \in PushObjects :
         LET r == push(vm, o)
         IN  /\ vm' = r.vm
             /\ pushed' = [before |-> vm, object |-> o, err |-> r.err,
                           calls |-> pushed.calls + 1]
    /\ UNCHANGED <<program, pc, comp, compErr, comp2, runErr, lastOp, enc, frameCall, repl, parser, disasm>>

NextPush == Push

SpecPush == InitPush /\ [][NextPush]_vars

(***************************************************************************)
(* pushFrame and popFrame on their own: VMs whose frame stack holds few    *)
(* frames or nearly MaxFrames, and a few calls on each.                    *)
(***************************************************************************)
\* a VM whose frame stack holds n frames
VMWithFrames(n) ==
    [NewVM(Bytecode(New)) EXCEPT
        !.frames = [k \in 1..n |-> NewFrame(CompiledFunction(<<>>, 0))],
        !.framesIndex = n]

InitFrames ==
    /\ vm \in {VMWithFrames(n) : n \in (1..(1 + FrameWindow))
                                       \cup ((MaxFrames - FrameWindow)..MaxFrames)}
    /\ frameCall = NoFrameCall
    /\ repl = NoRepl
    /\ parser = NoParser
    /\ disasm = NoDisasm
    /\ pc = "frames"
    /\ program = NoProgram
    /\ comp = New
    /\ compErr = ""
    /\ comp2 = New
    /\ runErr = ""
    /\ lastOp = -1
    /\ enc = NoCode
    /\ pushed = NoPush

\* the functions frames are made of
FrameFunctions == {CompiledFunction(<<OpNull, OpReturnValue>>, 1), CompiledFunction(<<OpReturn>>, 2)}

\* vm.pushFrame(NewFrame(fn))
PushFrame ==
    /\ pc = "frames"
    /\ frameCall.calls <= FrameWindow
    /\ frameCall' = [before |-> vm, what |-> "pushFrame", calls |-> frameCall.calls + 1]
    /\ IF pushFramePanics(vm)
       THEN vm' = vm /\ pc' = "panicked" /\ runErr' = IndexOutOfRange
       ELSE /\ \E fn \in FrameFunctions : vm' = pushFrame(vm, NewFrame(fn))
            /\ UNCHANGED <<pc, runErr, repl, parser>>
    /\ UNCHANGED <<program, comp, compErr, comp2, lastOp, enc, pushed, repl, parser, disasm>>

\* vm.popFrame()
PopFrame ==
    /\ pc = "frames"
    /\ frameCall.calls <= FrameWindow
    /\ frameCall' = [before |-> vm, what |-> "popFrame", calls |-> frameCall.calls + 1]
    /\ vm' = popFrame(vm)
    /\ IF popFramePanics(vm)
       THEN pc' = "panicked" /\ runErr' = IndexOutOfRange
       ELSE UNCHANGED <<pc, runErr, repl, parser>>
    /\ UNCHANGED <<program, comp, compErr, comp2, lastOp, enc, pushed, repl, parser, disasm>>

NextFrames == PushFrame \/ PopFrame

SpecFrames == InitFrames /\ [][NextFrames]_vars

(***************************************************************************)
(* The read-evaluate loop of func Start(in io.Reader, out io.Writer): each *)
(* line is scanned, parsed, compiled by a compiler.New() and run by a      *)
(* vm.New(comp.Bytecode()).  A line is taken as the parser leaves it: a    *)
(* program, or parser errors.                                              *)
(***************************************************************************)
\* a session reads at most MaxLines lines
MaxLines == 3

Line(prog, errors) == [program |-> prog, errors |-> errors]

ReplLines ==
    {Line(Program(ss), FALSE) : ss \in
        {<<>>,
         <<LetStatement(NameX, IntegerLiteral(1))>>,
         <<LetStatement(NameX, IntegerLiteral(2))>>,
         <<ExpressionStatement(Identifier(NameX))>>,
         <<ExpressionStatement(Identifier(NameY))>>,
         <<ExpressionStatement(InfixExpression(Identifier(NameX), "+", IntegerLiteral(1)))>>,
         <<ExpressionStatement(InfixExpression(IntegerLiteral(1), "/", IntegerLiteral(0)))>>,
         <<ExpressionStatement(PrefixExpression("-", Boolean(TRUE)))>>,
         <<LetStatement(NameY, IntegerLiteral(1)),
           ExpressionStatement(PrefixExpression("-", Boolean(TRUE)))>>,
         <<ExpressionStatement(
               IfExpression(Boolean(FALSE),
                            BlockStatement(<<LetStatement(NameY, IntegerLiteral(1))>>))),
           ExpressionStatement(ArrayLiteral(<<Identifier(NameY)>>))>>}}
    \cup {Line(NoProgram, TRUE)}

\* Inspect() dereferences nil: on a nil object, and on an array or a hash
\* that holds one (their Inspect calls Inspect on every element, key and
\* value)
RECURSIVE InspectPanics(_)
InspectPanics(obj) ==
    \/ obj.type = "nil"
    \/ /\ obj.type \in {ARRAY_OBJ, HASH_OBJ}
       /\ \E k \in 1..Len(obj.elems) : InspectPanics(obj.elems[k])

\* what the loop wrote: the prompt, a report, or the Inspect() of an object
Written(what, obj) == [what |-> what, obj |-> obj]
PROMPT == Written(">>", Nil)

\* a line the loop is done with, and how it ended
Finished(line, how) == [program |-> line, how |-> how]

InitRepl ==
    /\ program = NoProgram
    /\ pc = "prompt"
    /\ comp = New
    /\ compErr = ""
    /\ comp2 = New
    /\ vm = NewVM(Bytecode(New))
    /\ runErr = ""
    /\ lastOp = -1
    /\ enc = NoCode
    /\ pushed = NoPush
    /\ frameCall = NoFrameCall
    /\ repl = [done |-> <<>>, out |-> <<PROMPT>>]
    /\ parser = NoParser
    /\ disasm = NoDisasm

\* scanner.Scan() fails: return
ReplEnd ==
    /\ pc = "prompt"
    /\ pc' = "returned"
    /\ UNCHANGED <<program, comp, compErr, comp2, vm, runErr, lastOp, enc, pushed, frameCall, repl, parser, disasm>>

\* a line is scanned and parsed; parser errors are printed and the loop continues
ReplScan ==
    /\ pc = "prompt"
    /\ Len(repl.done) < MaxLines
    /\ \E line \in ReplLines :
         /\ program' = line.program
         /\ IF line.errors
            THEN /\ pc' = "prompt"
                 /\ repl' = [done |-> Append(repl.done, Finished(line.program, "parser errors")),
                             out |-> repl.out \o <<Written("parser errors", Nil), PROMPT>>]
            ELSE /\ pc' = "parsed"
                 /\ repl' = repl
    /\ comp' = New
    /\ compErr' = ""
    /\ vm' = NewVM(Bytecode(New))
    /\ runErr' = ""
    /\ lastOp' = -1
    /\ UNCHANGED <<comp2, enc, pushed, frameCall, parser, disasm>>

\* err != nil after comp.Compile(program): report and continue
ReplCompileFailed ==
    /\ pc = "compile_error"
    /\ pc' = "prompt"
    /\ repl' = [done |-> Append(repl.done, Finished(program, "Compilation failed")),
                out |-> repl.out \o <<Written("Compilation failed", Nil), PROMPT>>]
    /\ UNCHANGED <<program, comp, compErr, comp2, vm, runErr, lastOp, enc, pushed, frameCall, parser, disasm>>

\* err != nil after machine.Run(): report and continue
ReplRunFailed ==
    /\ pc = "faulted"
    /\ pc' = "prompt"
    /\ repl' = [done |-> Append(repl.done, Finished(program, "Executing bytecode failed")),
                out |-> repl.out \o <<Written("Executing bytecode failed", Nil), PROMPT>>]
    /\ UNCHANGED <<program, comp, compErr, comp2, vm, runErr, lastOp, enc, pushed, frameCall, parser, disasm>>

\* io.WriteString(out, lastPopped.Inspect()): a nil lastPopped panics
ReplPrint ==
    /\ pc = "halted"
    /\ IF LastPoppedStackElem(vm) = OutOfRange
       THEN /\ pc' = "panicked"
            /\ runErr' = IndexOutOfRange
            /\ repl' = repl
       ELSE IF InspectPanics(LastPoppedStackElem(vm))
       THEN /\ pc' = "panicked"
            /\ runErr' = NilDereference
            /\ repl' = repl
       ELSE /\ pc' = "prompt"
            /\ runErr' = runErr
            /\ repl' = [done |-> Append(repl.done, Finished(program, "")),
                        out |-> repl.out
                                \o <<Written("Inspect", LastPoppedStackElem(vm)), PROMPT>>]
    /\ UNCHANGED <<program, comp, compErr, comp2, vm, lastOp, enc, pushed, frameCall, parser, disasm>>

NextRepl ==
    \/ ReplEnd
    \/ ReplScan
    \/ CompileProgram
    \/ ReplCompileFailed
    \/ StartVM
    \/ RunStep
    \/ RunReturn
    \/ ReplRunFailed
    \/ ReplPrint

SpecRepl == InitRepl /\ [][NextRepl]_vars

(***************************************************************************)
(* The parser on one source text: p := parser.New(l); p.ParseProgram().    *)
(***************************************************************************)
\* a source text of the exhaustive family has at most MaxTokens tokens
MaxTokens == 4

TokenA == Token("IDENT", <<97>>)
TokenB == Token("IDENT", <<98>>)
TokenC == Token("IDENT", <<99>>)
TokenD == Token("IDENT", <<100>>)
Bare(type) == Token(type, <<>>)

\* every text of up to MaxTokens tokens over the statement keywords, an
\* identifier, an integer, `=`, `;` and the parentheses
CoreTokens ==
    {Bare("LET"), Bare("RETURN"), TokenA, Token("INT", TextOne), Bare("ASSIGN"),
     Bare("SEMICOLON"), Bare("LPAREN"), Bare("RPAREN")}
CoreLines == SeqsUpTo(CoreTokens, MaxTokens)

\* operands joined by binary operators: a op b op c and a op b op c op d,
\* an operand being a name, a negated name or a call
BinaryTypes == {"EQ", "NOT_EQ", "LT", "GT", "PLUS", "MINUS", "SLASH", "ASTERISK"}
Chain(operands, ops) == [operands |-> operands, ops |-> ops]
Chains ==
    {Chain(<<<<TokenA>>, <<TokenB>>, <<TokenC>>>>, <<o1, o2>>) :
        o1 \in BinaryTypes, o2 \in BinaryTypes}
    \cup {Chain(<<<<TokenA>>, <<TokenB>>, <<TokenC>>, <<TokenD>>>>, <<o1, o2, o3>>) :
            o1 \in BinaryTypes, o2 \in BinaryTypes, o3 \in BinaryTypes}
    \cup {Chain(<<<<Bare(pre), TokenA>>, <<TokenB>>>>, <<o1>>) :
            pre \in {"MINUS", "BANG"}, o1 \in BinaryTypes}
    \cup {Chain(<<<<TokenA>>, <<Bare(pre), TokenB>>, <<TokenC>>>>, <<o1, o2>>) :
            pre \in {"MINUS", "BANG"}, o1 \in BinaryTypes, o2 \in BinaryTypes}
    \cup {Chain(<<<<TokenA>>, <<TokenB, Bare("LPAREN"), TokenC, Bare("RPAREN")>>, <<TokenD>>>>,
                <<o1, o2>>) : o1 \in BinaryTypes, o2 \in BinaryTypes}

\* the tokens of a chain, from its k-th operand on
RECURSIVE ChainTokens(_, _)
ChainTokens(chain, k) ==
    IF k = Len(chain.operands) THEN chain.operands[k]
    ELSE chain.operands[k] \o <<Bare(chain.ops[k])>> \o ChainTokens(chain, k + 1)
ChainLines == {ChainTokens(c, 1) : c \in Chains}

\* texts with blocks, functions, calls, arrays, octal and malformed integers
BlockLines ==
    {<<Bare("IF"), Bare("LPAREN"), TokenA, Bare("RPAREN"), Bare("LBRACE")>> \o body
        \o <<Bare("RBRACE")>> \o rest :
        body \in {<<>>, <<TokenB>>, <<Bare("RETURN"), TokenB>>,
                  <<Bare("RETURN"), TokenB, Bare("SEMICOLON")>>,
                  <<Bare("LET"), Bare("ASSIGN")>>},
        rest \in {<<>>, <<Bare("SEMICOLON")>>,
                  <<Bare("ELSE"), Bare("LBRACE"), TokenC, Bare("RBRACE")>>,
                  <<Bare("ELSE"), TokenC>>}}
    \cup {<<Bare("FUNCTION"), Bare("LPAREN")>> \o params \o <<Bare("LBRACE")>> \o body :
            params \in {<<Bare("RPAREN")>>, <<TokenA, Bare("RPAREN")>>,
                        <<TokenA, Bare("COMMA"), TokenB, Bare("RPAREN")>>, <<TokenA>>},
            body \in {<<Bare("RBRACE")>>, <<TokenA, Bare("RBRACE")>>, <<TokenA>>,
                      <<Bare("RETURN"), TokenA, Bare("RBRACE")>>}}
    \cup {<<Bare("LBRACKET")>> \o elems :
            elems \in {<<Bare("RBRACKET")>>, <<TokenA, Bare("RBRACKET")>>,
                       <<TokenA, Bare("COMMA"), TokenB, Bare("RBRACKET")>>,
                       <<TokenA, Bare("COMMA")>>, <<TokenA>>}}
    \cup {<<Token("INT", digits)>> : digits \in {<<48>>, <<48, 49, 48>>, <<48, 56>>, <<49, 48>>}}
    \cup {<<Token("STRING", TextA)>>, <<Bare("TRUE")>>, <<Bare("FALSE"), Bare("SEMICOLON"),
           Bare("SEMICOLON")>>, <<Bare("ILLEGAL")>>}

TokenLines == CoreLines \cup ChainLines \cup BlockLines

InitParse ==
    /\ program = NoProgram
    /\ pc = "source"
    /\ comp = New
    /\ compErr = ""
    /\ comp2 = New
    /\ vm = NewVM(Bytecode(New))
    /\ runErr = ""
    /\ lastOp = -1
    /\ enc = NoCode
    /\ pushed = NoPush
    /\ frameCall = NoFrameCall
    /\ repl = NoRepl
    /\ parser = NoParser
    /\ disasm = NoDisasm

\* p := parser.New(lexer.New(input)), for some source text
CallNew ==
    /\ pc = "source"
    /\ \E toks \in TokenLines : parser' = NewParser(toks)
    /\ pc' = "lexed"
    /\ UNCHANGED <<program, comp, compErr, comp2, vm, runErr, lastOp, enc, pushed, frameCall, repl, disasm>>

\* program := p.ParseProgram(): it returns, or it never does
CallParseProgram ==
    /\ pc = "lexed"
    /\ LET r == ParseProgram(parser)
       IN  IF r.p.loops
           THEN /\ pc' = "parsing for ever"
                /\ UNCHANGED <<program, parser>>
           ELSE /\ pc' = "parsed"
                /\ program' = r.node
                /\ parser' = r.p
    /\ UNCHANGED <<comp, compErr, comp2, vm, runErr, lastOp, enc, pushed, frameCall, repl, disasm>>

NextParse == CallNew \/ CallParseProgram

SpecParse == InitParse /\ [][NextParse]_vars

(***************************************************************************)
(* Instructions.String() on its own: one byte sequence, disassembled one   *)
(* loop iteration at a time.                                               *)
(***************************************************************************)
\* byte sequences have up to MaxBytes bytes
MaxBytes == 3

\* opcodes without an operand, with one of two bytes and with one of one
\* byte, and two bytes that are no opcode
StringBytes == {OpConstant, OpAdd, OpGetLocal, OpSetLocal + 1, 255}

InitString ==
    /\ disasm \in {[ins |-> b, i |-> 0, out |-> <<>>] : b \in SeqsUpTo(StringBytes, MaxBytes)}
    /\ pc = "decoding"
    /\ program = NoProgram
    /\ comp = New
    /\ compErr = ""
    /\ comp2 = New
    /\ vm = NewVM(Bytecode(New))
    /\ runErr = ""
    /\ lastOp = -1
    /\ enc = NoCode
    /\ pushed = NoPush
    /\ frameCall = NoFrameCall
    /\ repl = NoRepl
    /\ parser = NoParser

\* an iteration on a defined opcode whose operands are all there
StringStep ==
    /\ pc = "decoding"
    /\ disasm.i < Len(disasm.ins)
    /\ Defined(disasm.ins[disasm.i + 1])
    /\ ~StringPanics(disasm)
    /\ disasm' = StringIteration(disasm)
    /\ UNCHANGED <<program, pc, comp, compErr, comp2, vm, runErr, lastOp, enc, pushed, frameCall, repl, parser>>

\* an iteration on a byte that is no opcode: i stays, so the loop condition
\* stays true and every later iteration is this one again
StringError ==
    /\ pc = "decoding"
    /\ disasm.i < Len(disasm.ins)
    /\ ~Defined(disasm.ins[disasm.i + 1])
    /\ disasm' = StringIteration(disasm)
    /\ pc' = "decoding for ever"
    /\ UNCHANGED <<program, comp, compErr, comp2, vm, runErr, lastOp, enc, pushed, frameCall, repl, parser>>

\* an iteration on an opcode whose operand bytes end before they should
StringPanic ==
    /\ pc = "decoding"
    /\ disasm.i < Len(disasm.ins)
    /\ StringPanics(disasm)
    /\ pc' = "panicked"
    /\ runErr' = IndexOutOfRange
    /\ UNCHANGED <<program, comp, compErr, comp2, vm, lastOp, enc, pushed, frameCall, repl, parser, disasm>>

\* the loop condition fails: return out.String()
StringReturn ==
    /\ pc = "decoding"
    /\ disasm.i >= Len(disasm.ins)
    /\ pc' = "returned"
    /\ UNCHANGED <<program, comp, compErr, comp2, vm, runErr, lastOp, enc, pushed, frameCall, repl, parser, disasm>>

NextString == StringStep \/ StringError \/ StringPanic \/ StringReturn

SpecString == InitString /\ [][NextString]_vars

(***************************************************************************)
(* What the language says of a program, read off the AST alone.            *)
(***************************************************************************)
\* Does some node fail to compile: an identifier read before any let binds
\* it, or an operator the compiler has no opcode for.  names are the names
\* bound so far; a function body's bindings end with the body.
RECURSIVE Scan(_, _)
RECURSIVE ScanAll(_, _, _)
Scan(node, names) ==
    CASE node.kind = "ident" -> [bad |-> node.s \notin names, names |-> names]
      [] node.kind = "let" ->
            LET r == Scan(node.kids[1], names)
            IN  [bad |-> r.bad, names |-> r.names \cup {node.s}]
      [] node.kind = "prefix" ->
            LET r == Scan(node.kids[1], names)
            IN  [bad |-> r.bad \/ node.op \notin {"!", "-"}, names |-> r.names]
      [] node.kind = "infix" ->
            LET r == ScanAll(node.kids, 1, [bad |-> FALSE, names |-> names])
            IN  [bad |-> r.bad \/ node.op \notin {"+", "-", "*", "/", ">", "<", "==", "!="},
                 names |-> r.names]
      [] node.kind = "fn" ->
            LET r == Scan(node.kids[1], names)
            IN  [bad |-> r.bad, names |-> names]
      [] OTHER -> ScanAll(node.kids, 1, [bad |-> FALSE, names |-> names])
ScanAll(nodes, i, acc) ==
    IF i > Len(nodes) THEN acc
    ELSE LET r == Scan(nodes[i], acc.names)
         IN  ScanAll(nodes, i + 1, [bad |-> acc.bad \/ r.bad, names |-> r.names])

SomeNodeFails(prog) == Scan(prog, {}).bad

\* The value of an expression by the rules of the language.  An evaluation
\* ends in one of
\*   "value"        the expression has this value
\*   "bound"        a let statement: a name was bound, there is no value
\*   "error"        the program is to be rejected or to fail
\*   "unspecified"  the rules give it no value (an if whose block is empty or
\*                  ends in a let, == on two strings or arrays, a call, ...)
\* env maps the bound names to their values; objects carry id 0.
Value(val, env) == [status |-> "value", val |-> val, env |-> env]
NoValue(status, env) == [status |-> status, val |-> Nil, env |-> env]

Truthy(val) ==
    CASE val.type = BOOLEAN_OBJ -> val.n = 1
      [] val.type = NULL_OBJ -> FALSE
      [] OTHER -> TRUE

BooleanOf(b) == IF b THEN True ELSE False

EvalPrefix(op, v, env) ==
    CASE op = "!" -> Value(BooleanOf(~Truthy(v)), env)
      [] op = "-" /\ v.type = INTEGER_OBJ -> Value(Integer(-v.n, 0), env)
      [] OTHER -> NoValue("error", env)

EvalInfix(op, l, r, env) ==
    CASE op \notin {"+", "-", "*", "/", ">", "<", "==", "!="} -> NoValue("error", env)
      [] l.type = INTEGER_OBJ /\ r.type = INTEGER_OBJ ->
           (CASE op = "+" -> Value(Integer(l.n + r.n, 0), env)
              [] op = "-" -> Value(Integer(l.n - r.n, 0), env)
              [] op = "*" -> Value(Integer(l.n * r.n, 0), env)
              [] op = "/" -> IF r.n = 0 THEN NoValue("error", env)
                             ELSE Value(Integer(GoDiv(l.n, r.n), 0), env)
              [] op = ">" -> Value(BooleanOf(l.n > r.n), env)
              [] op = "<" -> Value(BooleanOf(l.n < r.n), env)
              [] op = "==" -> Value(BooleanOf(l.n = r.n), env)
              [] op = "!=" -> Value(BooleanOf(l.n # r.n), env))
      [] l.type = STRING_OBJ /\ r.type = STRING_OBJ ->
           (CASE op = "+" -> Value(String(l.s \o r.s, 0), env)
              [] op \in {"==", "!="} -> NoValue("unspecified", env)
              [] OTHER -> NoValue("error", env))
      [] op \in {"==", "!="} ->
            IF l.type # r.type THEN Value(BooleanOf(op = "!="), env)
            ELSE IF l.type \in {BOOLEAN_OBJ, NULL_OBJ}
            THEN Value(BooleanOf((l.n = r.n) = (op = "==")), env)
            ELSE NoValue("unspecified", env)
      [] OTHER -> NoValue("error", env)

\* the value a hash holds for key, Null if none
RECURSIVE HashLookup(_, _, _)
HashLookup(flat, i, key) ==
    IF i > Len(flat) THEN Null
    ELSE IF flat[i] = key THEN flat[i + 1]
    ELSE HashLookup(flat, i + 2, key)

EvalIndex(l, i, env) ==
    CASE l.type = ARRAY_OBJ /\ i.type = INTEGER_OBJ ->
            IF i.n >= 0 /\ i.n < Len(l.elems) THEN Value(l.elems[i.n + 1], env)
            ELSE Value(Null, env)
      [] l.type = HASH_OBJ /\ i.type \in {INTEGER_OBJ, BOOLEAN_OBJ, STRING_OBJ} ->
            Value(HashLookup(l.elems, 1, i), env)
      [] OTHER -> NoValue("error", env)

\* a hash literal's keys are usable: each hashable, no two alike
KeysUsable(flat) ==
    LET keys == {k \in 1..Len(flat) : k % 2 = 1}
    IN  IF \E k \in keys : flat[k].type \notin {INTEGER_OBJ, BOOLEAN_OBJ, STRING_OBJ}
        THEN "error"
        ELSE IF \E j, k \in keys : j # k /\ flat[j] = flat[k] THEN "unspecified"
        ELSE "value"

RECURSIVE Eval(_, _)
RECURSIVE EvalAll(_, _, _, _)
RECURSIVE EvalBlock(_, _, _, _)

\* the expressions nodes[i..] in order: their values, or the first failure
EvalAll(nodes, i, env, vals) ==
    IF i > Len(nodes) THEN [status |-> "value", vals |-> vals, env |-> env]
    ELSE LET r == Eval(nodes[i], env)
         IN  IF r.status # "value" THEN [status |-> r.status, vals |-> vals, env |-> r.env]
             ELSE EvalAll(nodes, i + 1, r.env, Append(vals, r.val))

\* the statements stmts[i..] in order: what the last one yields
EvalBlock(stmts, i, env, last) ==
    IF i > Len(stmts) THEN [last EXCEPT !.env = env]
    ELSE LET r == Eval(stmts[i], env)
         IN  IF r.status \in {"error", "unspecified"} THEN r
             ELSE EvalBlock(stmts, i + 1, r.env, r)

\* a block as the branch of an if: its last statement's value, if it has one
BranchValue(block, env) ==
    LET r == EvalBlock(block.kids, 1, env, NoValue("bound", env))
    IN  IF r.status = "bound" THEN NoValue("unspecified", r.env) ELSE r

Eval(node, env) ==
    CASE node.kind = "int" -> Value(Integer(node.n, 0), env)
      [] node.kind = "bool" -> Value(BooleanOf(node.n = 1), env)
      [] node.kind = "str" -> Value(String(node.s, 0), env)
      [] node.kind = "ident" ->
            IF node.s \in DOMAIN env THEN Value(env[node.s], env) ELSE NoValue("error", env)
      [] node.kind = "exprstmt" -> Eval(node.kids[1], env)
      [] node.kind = "let" ->
            LET r == Eval(node.kids[1], env)
            IN  IF r.status # "value" THEN r
                ELSE NoValue("bound",
                             [n \in DOMAIN r.env \cup {node.s} |->
                                 IF n = node.s THEN r.val ELSE r.env[n]])
      [] node.kind = "program" -> EvalBlock(node.kids, 1, env, NoValue("bound", env))
      [] node.kind = "prefix" ->
            LET r == Eval(node.kids[1], env)
            IN  IF r.status # "value" THEN r ELSE EvalPrefix(node.op, r.val, r.env)
      [] node.kind = "infix" ->
            LET r == EvalAll(node.kids, 1, env, <<>>)
            IN  IF r.status # "value" THEN NoValue(r.status, r.env)
                ELSE EvalInfix(node.op, r.vals[1], r.vals[2], r.env)
      [] node.kind = "if" ->
            LET c == Eval(node.kids[1], env)
            IN  IF c.status # "value" THEN c
                ELSE IF Truthy(c.val) THEN BranchValue(node.kids[2], c.env)
                ELSE IF Len(node.kids) = 3 THEN BranchValue(node.kids[3], c.env)
                ELSE Value(Null, c.env)
      [] node.kind = "array" ->
            LET r == EvalAll(node.kids, 1, env, <<>>)
            IN  IF r.status # "value" THEN NoValue(r.status, r.env)
                ELSE Value(Array(r.vals, 0), r.env)
      [] node.kind = "hash" ->
            LET r == EvalAll(node.kids, 1, env, <<>>)
            IN  IF r.status # "value" THEN NoValue(r.status, r.env)
                ELSE IF KeysUsable(r.vals) # "value" THEN NoValue(KeysUsable(r.vals), r.env)
                ELSE Value(Hash(r.vals, 0), r.env)
      [] node.kind = "index" ->
            LET r == EvalAll(node.kids, 1, env, <<>>)
            IN  IF r.status # "value" THEN NoValue(r.status, r.env)
                ELSE EvalIndex(r.vals[1], r.vals[2], r.env)
      [] node.kind = "fn" -> Value(CompiledFunction(<<>>, 0), env)
      [] OTHER -> NoValue("unspecified", env)

\* an object without the identities of the allocations in it
RECURSIVE Strip(_)
Strip(obj) ==
    [obj EXCEPT !.id = 0, !.elems = [k \in DOMAIN obj.elems |-> Strip(obj.elems[k])]]

\* got, an object of the VM, is the value want: a function is any compiled
\* function, a hash is its set of pairs
SameValue(got, want) ==
    CASE want.type = COMPILED_FUNCTION_OBJ -> got.type = COMPILED_FUNCTION_OBJ
      [] want.type = HASH_OBJ ->
            /\ got.type = HASH_OBJ
            /\ {<<Strip(got.elems[k]), Strip(got.elems[k + 1])>> :
                    k \in {j \in 1..Len(got.elems) : j % 2 = 1}}
               = {<<want.elems[k], want.elems[k + 1]>> :
                    k \in {j \in 1..Len(want.elems) : j % 2 = 1}}
      [] OTHER -> Strip(got) = want

\* the last statement of the program
LastStatement(prog) == prog.kids[Len(prog.kids)]

\* the offsets of ins at which an instruction starts, from offset i on
RECURSIVE InstructionStarts(_, _)
InstructionStarts(ins, i) ==
    IF i >= Len(ins) THEN {}
    ELSE {i} \cup InstructionStarts(ins,
                     i + 1 + (IF Defined(ins[i + 1])
                              THEN WidthSum(Lookup(ins[i + 1]).OperandWidths,
                                            Len(Lookup(ins[i + 1]).OperandWidths))
                              ELSE 0))

\* the operands of the jumps of ins
JumpTargets(ins) ==
    {Operand(ins, i) : i \in {j \in InstructionStarts(ins, 0) :
                                ins[j + 1] \in {OpJump, OpJumpNotTruthy}}}

\* the instruction buffers a finished compilation holds: the main program's
\* and each compiled function's
FinishedBuffers(c) ==
    {currentInstructions(c)}
    \cup {c.constants[k].ins : k \in {j \in 1..Len(c.constants) :
                                        c.constants[j].type = COMPILED_FUNCTION_OBJ}}

\* how many stack values the instruction Run fetches next reads
Demand(v) ==
    LET ip == currentFrame(v).ip + 1
        ins == Instructions(currentFrame(v))
        op == NextOp(v)
    IN  CASE op \in {OpAdd, OpSub, OpMul, OpDiv, OpEqual, OpNotEqual, OpGreaterThan, OpIndex} -> 2
          [] op \in {OpPop, OpBang, OpMinus, OpJumpNotTruthy, OpSetGlobal} -> 1
          [] op \in {OpArray, OpHash} /\ ~OperandMissing(ins, ip) -> Operand(ins, ip)
          [] OTHER -> 0

(***************************************************************************)
(* The claims.                                                             *)
(***************************************************************************)
\* C1: whenever Run returns nil for a program that Compile accepted, the
\* stack pointer is 0.
C1_StackEmptyAfterRun == pc = "halted" => vm.sp = 0

\* C2: every instruction Run is about to execute for a compiled program finds
\* on the stack the values it pops (one for a pop, N for OpArray/OpHash N).
C2_NoUnderflow == (pc = "running" /\ LoopCondition(vm)) => vm.sp >= Demand(vm)

\* C3: when Run has returned nil for a program whose last statement is an
\* expression statement, LastPoppedStackElem is the value of that expression.
C3_LastPoppedIsValue ==
    (pc = "halted" /\ LastStatement(program).kind = "exprstmt")
        => LET r == Eval(program, <<>>)
           IN  \/ r.status = "unspecified"
               \/ r.status = "value" /\ SameValue(LastPoppedStackElem(vm), r.val)

\* C4: the iteration that executes OpCall leaves Run going in a new frame,
\* pushed on the frame stack with ip = -1.
C4_CallPushesFrame ==
    lastOp = OpCall => (pc = "running" /\ vm.framesIndex = 2 /\ currentFrame(vm).ip = -1)

\* C5: in every buffer of a compilation that returned nil, each jump operand
\* is the offset of an instruction of that buffer (so it is not 9999).
C5_JumpsLand ==
    pc \in {"compiled", "compiled_again", "running", "halted", "faulted", "panicked"}
        => \A buf \in FinishedBuffers(comp) : JumpTargets(buf) \subseteq InstructionStarts(buf, 0)

\* the operands are as many as the opcode's widths and each fits its width
Fits(op, operands) ==
    /\ Defined(op)
    /\ Len(operands) = Len(Lookup(op).OperandWidths)
    /\ \A i \in 1..Len(operands) :
          /\ operands[i] >= 0
          /\ Lookup(op).OperandWidths[i] = 1 => operands[i] <= 255
          /\ Lookup(op).OperandWidths[i] = 2 => operands[i] <= 65535

\* C6: for a defined opcode and operands that fit its widths, ReadOperands on
\* Make(op, operands...)[1:] returns the operands and the sum of the widths.
C6_RoundTrip ==
    (pc = "read" /\ Fits(enc.op, enc.operands))
        => /\ enc.read = enc.operands
           /\ enc.n = WidthSum(Lookup(enc.op).OperandWidths, Len(Lookup(enc.op).OperandWidths))

\* the largest two-byte operand has made the round trip
C6_RoundTripWitness ==
    /\ pc = "read"
    /\ enc.op = OpConstant
    /\ enc.operands = <<65535>>
    /\ enc.instruction = <<OpConstant, 255, 255>>
    /\ enc.read = <<65535>>
    /\ enc.n = 2

\* C7: a second fresh compiler yields the instructions and constants of the first.
C7_SameBytecode == pc = "compiled_again" => Bytecode(comp) = Bytecode(comp2)

\* C8: a program with a node that fails to compile makes Compile return an error.
C8_ErrorPropagates == (pc # "parsed" /\ SomeNodeFails(program)) => pc = "compile_error"

\* C9: an iteration that fetched an opcode without a case ends Run with an
\* error returned to the caller.
C9_UnknownOpcodeFaults ==
    (lastOp # -1 /\ lastOp \notin HandledOpcodes) => pc = "faulted"

\* C10: a push on a full stack (sp >= StackSize) returns the overflow error
\* and changes neither stack nor sp; any other push returns nil, stores the
\* object at stack[sp], keeps the slots below and adds one to sp; sp stays in
\* 0..StackSize.
C10_PushBound ==
    pushed.calls > 0 =>
        /\ vm.sp >= 0 /\ vm.sp <= StackSize
        /\ IF pushed.before.sp >= StackSize
           THEN pushed.err = "vm: stack overflow" /\ vm = pushed.before
           ELSE /\ pushed.err = ""
                /\ vm.sp = pushed.before.sp + 1
                /\ SlotAt(vm.stack, StackSize, pushed.before.sp) = pushed.object
                /\ \A k \in 0..(pushed.before.sp - 1) :
                      SlotAt(vm.stack, StackSize, k) = SlotAt(pushed.before.stack, StackSize, k)

\* the stack was filled to the last slot by one push and the next was refused
C10_PushBoundWitness ==
    /\ pushed.calls >= 2
    /\ pushed.before.sp = StackSize
    /\ pushed.err = "vm: stack overflow"
    /\ vm.sp = StackSize
    /\ SlotAt(vm.stack, StackSize, StackSize - 1) # Nil

\* C11: a pushFrame on a full frame stack (framesIndex = MaxFrames) ends in an
\* error the VM reports, not in a panic, and framesIndex stays in 1..MaxFrames.
C11_FrameBound ==
    frameCall.calls > 0 =>
        /\ vm.framesIndex >= 1 /\ vm.framesIndex <= MaxFrames
        /\ (frameCall.what = "pushFrame" /\ frameCall.before.framesIndex = MaxFrames)
              => (pc # "panicked" /\ runErr # "")

\* Run is about to execute op on two operands: right on top, left below
AboutToExecute(ops) ==
    /\ pc = "running"
    /\ LoopCondition(vm)
    /\ NextOp(vm) \in ops
    /\ vm.sp >= 2
RightOperand == SlotAt(vm.stack, StackSize, vm.sp - 1)
LeftOperand == SlotAt(vm.stack, StackSize, vm.sp - 2)

\* C12: OpDiv on two Integers with right operand 0 makes Run return an error:
\* the iteration neither panics nor pushes a value.
C12_DivideByZeroFaults ==
    (/\ AboutToExecute({OpDiv})
     /\ LeftOperand.type = INTEGER_OBJ
     /\ RightOperand.type = INTEGER_OBJ
     /\ RightOperand.n = 0)
        => /\ RunIteration(vm).panic = ""
           /\ RunIteration(vm).err # ""
           /\ RunIteration(vm).vm.sp = vm.sp - 2

\* the operands are objects of the types the operator computes on
ArithmeticTyped ==
    \/ LeftOperand.type = INTEGER_OBJ /\ RightOperand.type = INTEGER_OBJ
    \/ NextOp(vm) = OpAdd /\ LeftOperand.type = STRING_OBJ /\ RightOperand.type = STRING_OBJ

\* C13: an arithmetic instruction on two objects pushes a result only for two
\* Integers or for OpAdd on two Strings, where the result is left followed by
\* right; for any other operands Run returns an error and nothing is pushed.
C13_ArithmeticTyping ==
    (/\ AboutToExecute({OpAdd, OpSub, OpMul, OpDiv})
     /\ LeftOperand.type # "nil" /\ RightOperand.type # "nil")
        => LET o == RunIteration(vm)
           IN  /\ o.vm.sp > vm.sp - 2 => ArithmeticTyped
               /\ ~ArithmeticTyped => (o.err # "" /\ o.panic = "" /\ o.vm.sp = vm.sp - 2)
               /\ (ArithmeticTyped /\ LeftOperand.type = STRING_OBJ)
                     => /\ o.err = "" /\ o.panic = ""
                        /\ o.vm.sp = vm.sp - 1
                        /\ StackTop(o.vm).type = STRING_OBJ
                        /\ StackTop(o.vm).s = LeftOperand.s \o RightOperand.s

\* Run has returned the error of OpSub on two Strings, the stack empty
C13_ArithmeticTypingWitness ==
    /\ pc = "faulted"
    /\ lastOp = OpSub
    /\ runErr = "vm: executeBinaryOperation: unknown string operator"
    /\ vm.sp = 0
    /\ SlotAt(vm.stack, StackSize, 0).type = STRING_OBJ /\ SlotAt(vm.stack, StackSize, 1).type = STRING_OBJ

\* C14: OpEqual and OpNotEqual on two objects push a Boolean; two Integers are
\* equal when their values are, any other two objects when they are the same
\* object; so two Booleans are equal when both are True or both False, two
\* String objects of the same content are not, and OpNotEqual pushes the
\* negation of what OpEqual pushes.
C14_Equality ==
    (/\ AboutToExecute({OpEqual, OpNotEqual})
     /\ LeftOperand.type # "nil" /\ RightOperand.type # "nil")
        => LET eq == executeComparison(vm, OpEqual)
               ne == executeComparison(vm, OpNotEqual)
               o == RunIteration(vm)
               ints == LeftOperand.type = INTEGER_OBJ /\ RightOperand.type = INTEGER_OBJ
           IN  /\ o.err = "" /\ o.panic = "" /\ o.vm.sp = vm.sp - 1
               /\ StackTop(o.vm) = StackTop((IF NextOp(vm) = OpEqual THEN eq ELSE ne).vm)
               /\ StackTop(eq.vm) \in {True, False}
               /\ StackTop(ne.vm) \in {True, False}
               /\ StackTop(ne.vm) # StackTop(eq.vm)
               /\ ints => (StackTop(eq.vm) = True <=> LeftOperand.n = RightOperand.n)
               /\ ~ints => (StackTop(eq.vm) = True <=> LeftOperand = RightOperand)
               /\ (LeftOperand.type = BOOLEAN_OBJ /\ RightOperand.type = BOOLEAN_OBJ)
                     => (StackTop(eq.vm) = True <=> LeftOperand.n = RightOperand.n)
               /\ (/\ LeftOperand.type = STRING_OBJ /\ RightOperand.type = STRING_OBJ
                   /\ LeftOperand.id # RightOperand.id)
                     => StackTop(eq.vm) = False

\* "a" == "a" has run to its end and left False
C14_EqualityWitness ==
    /\ pc = "halted"
    /\ LastStatement(program)
         = ExpressionStatement(InfixExpression(StringLiteral(TextA), "==", StringLiteral(TextA)))
    /\ LastPoppedStackElem(vm) = False

\* C15: OpIndex on an Array and an Integer i pushes element i for
\* 0 <= i < length and Null otherwise; on a Hash and a hashable key it pushes
\* the value stored under the key, or Null; for any other two objects Run
\* returns an error and nothing is pushed.
C15_Indexing ==
    (/\ AboutToExecute({OpIndex})
     /\ LeftOperand.type # "nil" /\ RightOperand.type # "nil")
        => LET o == RunIteration(vm)
               target == LeftOperand
               index == RightOperand
               hits == {k \in 1..Len(target.elems) :
                          /\ k % 2 = 1
                          /\ target.elems[k].type = index.type
                          /\ target.elems[k].n = index.n
                          /\ target.elems[k].s = index.s}
               pushes == o.err = "" /\ o.panic = "" /\ o.vm.sp = vm.sp - 1
           IN  CASE target.type = ARRAY_OBJ /\ index.type = INTEGER_OBJ ->
                      /\ pushes
                      /\ StackTop(o.vm) = IF index.n >= 0 /\ index.n < Len(target.elems)
                                          THEN target.elems[index.n + 1] ELSE Null
                 [] target.type = HASH_OBJ
                    /\ index.type \in {INTEGER_OBJ, BOOLEAN_OBJ, STRING_OBJ} ->
                      /\ pushes
                      /\ IF hits = {} THEN StackTop(o.vm) = Null
                         ELSE \E k \in hits : StackTop(o.vm) = target.elems[k + 1]
                 [] OTHER -> o.err # "" /\ o.panic = "" /\ o.vm.sp = vm.sp - 2

\* [1, 2][-1] has run to its end and left Null
C15_IndexingWitness ==
    /\ pc = "halted"
    /\ LastStatement(program)
         = ExpressionStatement(
             IndexExpression(ArrayLiteral(<<IntegerLiteral(1), IntegerLiteral(2)>>),
                             PrefixExpression("-", IntegerLiteral(1))))
    /\ lastOp = OpPop
    /\ LastPoppedStackElem(vm) = Null

\* the if-expression that is the program's last statement, with the
\* environment the statements before it leave
FinalIf == LastStatement(program).kids[1]
BeforeFinal == Eval(Program(SubSeq(program.kids, 1, Len(program.kids) - 1)), <<>>)
FinalCondition == Eval(FinalIf.kids[1], BeforeFinal.env)
EndsInIf ==
    /\ pc \in {"halted", "faulted", "panicked"}
    /\ LastStatement(program).kind = "exprstmt"
    /\ FinalIf.kind = "if"
    /\ BeforeFinal.status \in {"bound", "value"}
    /\ FinalCondition.status = "value"
    /\ Eval(FinalIf, BeforeFinal.env).status = "value"

\* the global slot of the let that opens a branch of the final if: the lets
\* before it each took one slot
BranchSlot(k) ==
    Cardinality({j \in 1..(Len(program.kids) - 1) : program.kids[j].kind = "let"}) + (k - 2)
OpensWithLet(k) ==
    /\ Len(FinalIf.kids) >= k
    /\ Len(FinalIf.kids[k].kids) > 0
    /\ FinalIf.kids[k].kids[1].kind = "let"

\* C16: an if-expression evaluates to its consequence's value when the
\* condition is truthy (anything but false and Null), to its alternative's
\* when the condition is falsy and there is one, to Null when the condition
\* is falsy and there is none; and exactly one branch is executed, which the
\* globals bound by the branches show
C16_ConditionalValue ==
    EndsInIf =>
        /\ pc = "halted"
        /\ LET c == FinalCondition
               truthy == ~(c.val.type = NULL_OBJ \/ (c.val.type = BOOLEAN_OBJ /\ c.val.n = 0))
               want == IF truthy THEN BranchValue(FinalIf.kids[2], c.env).val
                       ELSE IF Len(FinalIf.kids) = 3
                            THEN BranchValue(FinalIf.kids[3], c.env).val
                            ELSE Null
           IN  /\ SameValue(LastPoppedStackElem(vm), want)
               /\ OpensWithLet(2) =>
                      (SlotAt(vm.globals, vm.globalsLen, BranchSlot(2)) # Nil) = truthy
               /\ (OpensWithLet(2) /\ OpensWithLet(3)) =>
                      (SlotAt(vm.globals, vm.globalsLen, BranchSlot(3)) # Nil) = ~truthy

\* `if (0) { let y = 1; 1 } else { let y = 2; 2 }` ran to 1, the first branch's
\* global bound and the second's not
C16_ConditionalValueWitness ==
    /\ pc = "halted"
    /\ program = Program(<<ExpressionStatement(
                     IfElseExpression(IntegerLiteral(0),
                         BlockStatement(<<LetStatement(NameY, IntegerLiteral(1)),
                                          ExpressionStatement(IntegerLiteral(1))>>),
                         BlockStatement(<<LetStatement(NameY, IntegerLiteral(2)),
                                          ExpressionStatement(IntegerLiteral(2))>>)))>>)
    /\ LastPoppedStackElem(vm).type = INTEGER_OBJ
    /\ LastPoppedStackElem(vm).n = 1
    /\ SlotAt(vm.globals, vm.globalsLen, 0) # Nil
    /\ SlotAt(vm.globals, vm.globalsLen, 1) = Nil

\* the program is top-level lets and then an identifier
LetsThenName ==
    /\ LastStatement(program).kind = "exprstmt"
    /\ LastStatement(program).kids[1].kind = "ident"
    /\ \A k \in 1..(Len(program.kids) - 1) :
          program.kids[k].kind = "let" /\ program.kids[k].kids[1].kind \in {"int", "ident"}

\* the most recent let of the final identifier's name, 0 if there is none
LatestLet ==
    LET hits == {k \in 1..(Len(program.kids) - 1) :
                    program.kids[k].s = LastStatement(program).kids[1].s}
    IN  IF hits = {} THEN 0 ELSE CHOOSE k \in hits : \A j \in hits : j <= k

\* the operand of the k-th instruction with opcode op in ins
NthOperand(ins, op, k) ==
    LET at == {i \in InstructionStarts(ins, 0) : ins[i + 1] = op}
    IN  Operand(ins, CHOOSE i \in at : Cardinality({j \in at : j < i}) = k - 1)
CountOf(ins, op) == Cardinality({i \in InstructionStarts(ins, 0) : ins[i + 1] = op})

\* C17: after any sequence of top-level lets an identifier evaluates to the
\* value of the most recent let of its name, and the index in its OpGetGlobal
\* is the index in that let's OpSetGlobal
C17_GlobalShadowing ==
    (/\ pc \in {"compile_error", "halted", "faulted", "panicked"}
     /\ LetsThenName
     /\ Eval(program, <<>>).status = "value")
        => /\ pc = "halted"
           /\ LatestLet > 0
           /\ SameValue(LastPoppedStackElem(vm),
                        Eval(program.kids[LatestLet].kids[1],
                             Eval(Program(SubSeq(program.kids, 1, LatestLet - 1)), <<>>).env).val)
           /\ LET ins == currentInstructions(comp)
              IN  /\ CountOf(ins, OpSetGlobal) = Len(program.kids) - 1
                  /\ NthOperand(ins, OpGetGlobal, CountOf(ins, OpGetGlobal))
                     = NthOperand(ins, OpSetGlobal, LatestLet)

\* `let x = 1; let x = 2; x` ran to 2
C17_GlobalShadowingWitness ==
    /\ pc = "halted"
    /\ program = Program(<<LetStatement(NameX, IntegerLiteral(1)),
                           LetStatement(NameX, IntegerLiteral(2)),
                           ExpressionStatement(Identifier(NameX))>>)
    /\ LastPoppedStackElem(vm).type = INTEGER_OBJ
    /\ LastPoppedStackElem(vm).n = 2

\* the integer a signed literal denotes
IsSigned(node) ==
    \/ node.kind = "int"
    \/ node.kind = "prefix" /\ node.op = "-" /\ node.kids[1].kind = "int"
Signed(node) == IF node.kind = "int" THEN node.n ELSE -node.kids[1].n

\* q is a divided by b, truncated toward zero: the remainder is smaller than
\* b and has the sign of a
TruncatedQuotient(a, b, q) ==
    LET abs(x) == IF x < 0 THEN -x ELSE x
        r == a - q * b
    IN  abs(r) < abs(b) /\ (r = 0 \/ (r < 0) = (a < 0))

\* the program's last statement is `a op b` or `-a` on signed literals, the
\* division by zero aside
ArithmeticProgram ==
    LET e == LastStatement(program).kids[1]
    IN  /\ pc \in {"compile_error", "halted", "faulted", "panicked"}
        /\ LastStatement(program).kind = "exprstmt"
        /\ \/ /\ e.kind = "infix"
              /\ e.op \in {"+", "-", "*", "/"}
              /\ IsSigned(e.kids[1]) /\ IsSigned(e.kids[2])
              /\ ~(e.op = "/" /\ Signed(e.kids[2]) = 0)
           \/ e.kind = "prefix" /\ e.op = "-" /\ IsSigned(e.kids[1])

\* C18: on Integer operands a and b the compiled program `a op b` evaluates
\* to a+b, a-b, a*b and, for b # 0, to the quotient truncated toward zero;
\* prefix minus yields the negation
C18_IntegerArithmetic ==
    ArithmeticProgram =>
        LET e == LastStatement(program).kids[1]
            got == LastPoppedStackElem(vm)
            a == Signed(e.kids[1])
        IN  /\ pc = "halted"
            /\ got.type = INTEGER_OBJ
            /\ IF e.kind = "prefix" THEN got.n = -a
               ELSE LET b == Signed(e.kids[2])
                    IN  CASE e.op = "+" -> got.n = a + b
                          [] e.op = "-" -> got.n = a - b
                          [] e.op = "*" -> got.n = a * b
                          [] e.op = "/" -> TruncatedQuotient(a, b, got.n)

\* `-1 / 2` ran to 0
C18_IntegerArithmeticWitness ==
    /\ pc = "halted"
    /\ LastStatement(program) =
           ExpressionStatement(InfixExpression(PrefixExpression("-", IntegerLiteral(1)),
                                               "/", IntegerLiteral(2)))
    /\ LastPoppedStackElem(vm).type = INTEGER_OBJ
    /\ LastPoppedStackElem(vm).n = 0

\* the bindings the lines before this one made, a failed line none
RECURSIVE EnvOf(_, _, _)
EnvOf(done, i, env) ==
    IF i > Len(done) THEN env
    ELSE EnvOf(done, i + 1,
               IF done[i].how = "" THEN Eval(done[i].program, env).env ELSE env)

\* the loop is through compiling and running the line it read
LineOver == pc \in {"compile_error", "halted", "faulted", "panicked"}

\* C19: the loop compiles and runs each line with the symbols, constants and
\* globals of the lines before it: a line whose value rests on a global an
\* earlier line bound compiles, runs and yields that value
C19_IncrementalState ==
    (/\ LineOver
     /\ Eval(program, <<>>).status = "error"
     /\ Eval(program, EnvOf(repl.done, 1, <<>>)).status = "value")
        => /\ pc = "halted"
           /\ SameValue(LastPoppedStackElem(vm),
                        Eval(program, EnvOf(repl.done, 1, <<>>)).val)

\* C20: a line that ends in a parser, compile or VM error does not end the
\* loop: the next prompt is shown
C20_FailedLineLeavesState ==
    (LineOver /\ Eval(program, EnvOf(repl.done, 1, <<>>)).status = "error")
        => pc \in {"compile_error", "faulted"}

\* C21: for every source text, well-formed or not, ParseProgram terminates
\* and returns a program with the accumulated errors: no call of it runs
\* for ever
C21_ParserReturns == pc # "parsing for ever"

\* the ladder EQUALS < LESSGREATER < SUM < PRODUCT of the binary operators
Rung(type) ==
    CASE type \in {"EQ", "NOT_EQ"} -> 1
      [] type \in {"LT", "GT"} -> 2
      [] type \in {"PLUS", "MINUS"} -> 3
      [] type \in {"SLASH", "ASTERISK"} -> 4

\* an operand of a chain as a node: a name, a prefix operator on a name (PREFIX
\* binds tighter than every binary operator), a call (CALL binds tightest)
OperandNode(toks) ==
    CASE Len(toks) = 1 -> Identifier(toks[1].Literal)
      [] Len(toks) = 2 -> PrefixExpression(Spelling(toks[1].Type), Identifier(toks[2].Literal))
      [] OTHER -> Node("call", "", 0, <<>>,
                       <<Identifier(toks[1].Literal), Identifier(toks[3].Literal)>>)

\* operands lo..hi of a chain grouped by the ladder and to the left: the
\* root is the last of the operators on the lowest rung
RECURSIVE Grouped(_, _, _)
Grouped(chain, lo, hi) ==
    IF lo = hi THEN OperandNode(chain.operands[lo])
    ELSE LET root == CHOOSE k \in lo..(hi - 1) :
                        /\ \A j \in lo..(hi - 1) : Rung(chain.ops[k]) <= Rung(chain.ops[j])
                        /\ \A j \in (k + 1)..(hi - 1) : Rung(chain.ops[k]) < Rung(chain.ops[j])
         IN  InfixExpression(Grouped(chain, lo, root), Spelling(chain.ops[root]),
                             Grouped(chain, root + 1, hi))

\* C22: parseExpression groups binary operators by the ladder EQUALS <
\* LESSGREATER < SUM < PRODUCT < PREFIX < CALL and operators of equal
\* precedence to the left
C22_Precedence ==
    pc = "parsed" =>
        \A chain \in Chains :
            parser.l = ChainTokens(chain, 1) =>
                /\ program = Program(<<ExpressionStatement(
                                          Grouped(chain, 1, Len(chain.operands)))>>)
                /\ parser.errors = <<>>

\* `a - b - c` was parsed as ((a - b) - c)
C22_PrecedenceWitness ==
    /\ pc = "parsed"
    /\ parser.l = <<TokenA, Bare("MINUS"), TokenB, Bare("MINUS"), TokenC>>
    /\ program = Program(<<ExpressionStatement(
                     InfixExpression(
                         InfixExpression(Identifier(<<97>>), "-", Identifier(<<98>>)),
                         "-", Identifier(<<99>>)))>>)

\* the bytes of operand slot i of an instruction: they start after the opcode
\* and the slots before it
OperandBytes(ins, widths, i) ==
    SubSeq(ins, 2 + WidthSum(widths, i - 1), 1 + WidthSum(widths, i))

\* C23 (instruction encoding): for a defined opcode Make returns
\* 1 + sum(operand widths) bytes with the opcode first; when it was given one
\* operand per slot, each in the range of its width, a 2-byte slot holds
\* o div 256 then o mod 256 and a 1-byte slot holds o; for an undefined
\* opcode Make returns the empty byte sequence.
C23_InstructionEncoding ==
    pc \in {"made", "read"} =>
        IF Defined(enc.op)
        THEN LET widths == Lookup(enc.op).OperandWidths
             IN  /\ Len(enc.instruction) = 1 + WidthSum(widths, Len(widths))
                 /\ enc.instruction[1] = enc.op
                 /\ Fits(enc.op, enc.operands) =>
                       \A i \in 1..Len(widths) :
                           OperandBytes(enc.instruction, widths, i) =
                               IF widths[i] = 2
                               THEN << enc.operands[i] \div 256,
                                       enc.operands[i] % 256 >>
                               ELSE << enc.operands[i] >>
        ELSE enc.instruction = <<>>

\* Make(OpConstant, 65534) has been called and returned OpConstant, 0xFF, 0xFE
C23_InstructionEncodingWitness ==
    /\ pc = "made"
    /\ enc.op = OpConstant
    /\ enc.operands = <<65534>>
    /\ enc.instruction = <<OpConstant, 255, 254>>

\* the literals of a node that become constants, in the order Compile meets
\* them: the operands of < right before left, the pairs of a hash literal in
\* the order of its sorted keys, a function literal after the literals of its
\* body.  orders holds the orders this run draws for the ranges over a map
\* from this node on; a node that compiles uses up RangeCount of them.
AfterRanges(orders, n) == SubSeq(orders, n + 1, Len(orders))
RECURSIVE Literals(_, _)
RECURSIVE LiteralsOfAll(_, _, _)
RECURSIVE LiteralsOfPairs(_, _, _, _)
Literals(node, orders) ==
    CASE node.kind = "int" -> << Integer(node.n, 0) >>
      [] node.kind = "str" -> << String(node.s, 0) >>
      [] node.kind = "fn" ->
            Append(Literals(node.kids[1], orders), CompiledFunction(<<>>, 0))
      [] node.kind = "infix" /\ node.op = "<" ->
            Literals(node.kids[2], orders)
            \o Literals(node.kids[1], AfterRanges(orders, RangeCount(node.kids[2])))
      [] node.kind = "hash" ->
            LiteralsOfPairs(node, HashKeyOrder([mapOrder |-> orders], node), 1,
                            AfterRanges(orders, 1))
      [] OTHER -> LiteralsOfAll(node.kids, 1, orders)
LiteralsOfAll(nodes, i, orders) ==
    IF i > Len(nodes) THEN <<>>
    ELSE Literals(nodes[i], orders)
         \o LiteralsOfAll(nodes, i + 1, AfterRanges(orders, RangeCount(nodes[i])))
LiteralsOfPairs(node, keys, i, orders) ==
    IF i > Len(keys) THEN <<>>
    ELSE LET key == node.kids[2 * keys[i] - 1]
             value == node.kids[2 * keys[i]]
         IN  Literals(key, orders)
             \o Literals(value, AfterRanges(orders, RangeCount(key)))
             \o LiteralsOfPairs(node, keys, i + 1,
                                AfterRanges(orders, RangeCount(key) + RangeCount(value)))

\* the constant got holds the literal want (a function literal: any compiled
\* function)
HoldsLiteral(got, want) ==
    IF want.type = COMPILED_FUNCTION_OBJ THEN got.type = COMPILED_FUNCTION_OBJ
    ELSE Strip(got) = want

\* the operands of the OpConstant instructions of ins, in the order of their
\* offsets, from offset i on
RECURSIVE ConstantLoads(_, _)
ConstantLoads(ins, i) ==
    IF i >= Len(ins) THEN <<>>
    ELSE LET op == ins[i + 1]
             width == IF Defined(op)
                      THEN WidthSum(Lookup(op).OperandWidths, Len(Lookup(op).OperandWidths))
                      ELSE 0
         IN  (IF op = OpConstant THEN << Operand(ins, i) >> ELSE <<>>)
             \o ConstantLoads(ins, i + 1 + width)

\* the constant loads of the finished bytecode: those of the main program and
\* those of every compiled function of the pool
RECURSIVE FunctionLoads(_, _)
FunctionLoads(constants, k) ==
    IF k > Len(constants) THEN <<>>
    ELSE (IF constants[k].type = COMPILED_FUNCTION_OBJ
          THEN ConstantLoads(constants[k].ins, 0) ELSE <<>>)
         \o FunctionLoads(constants, k + 1)
AllLoads(c) == ConstantLoads(currentInstructions(c), 0) \o FunctionLoads(c.constants, 1)

Increasing(s) == \A i, j \in 1..Len(s) : i < j => s[i] < s[j]

\* Compile has returned nil and comp holds what it produced
Compiled == pc \in {"compiled", "compiled_again", "running", "halted", "faulted", "panicked"}

\* C24 (constant pool): the pool of a compiled error-free program is the
\* sequence of its integer, string and function literals in compile order,
\* and the pool after each statement is a prefix of the final pool
\* (append-only); every OpConstant operand of the finished bytecode, in the
\* main program or in a compiled function, is an index into the pool, every
\* index being loaded exactly once, in rising order within a buffer, and a
\* function's body loading only constants appended before the function.
C24_ConstantPool ==
    Compiled =>
        /\ \A i \in 1..Len(AllLoads(comp)) : AllLoads(comp)[i] < Len(comp.constants)
        /\ ~SomeNodeFails(program) =>
              /\ \E orders \in MapOrderDraws(RangeCount(program)) :
                    LET want == Literals(program, orders)
                    IN  /\ Len(comp.constants) = Len(want)
                        /\ \A k \in 1..Len(want) : HoldsLiteral(comp.constants[k], want[k])
                        /\ \A n \in 0..Len(program.kids) :
                              LET part == Compile(Program(SubSeq(program.kids, 1, n)),
                                                  [New EXCEPT !.mapOrder = orders]).c.constants
                              IN  part = SubSeq(comp.constants, 1, Len(part))
              /\ Len(AllLoads(comp)) = Len(comp.constants)
              /\ {AllLoads(comp)[i] : i \in 1..Len(AllLoads(comp))} = 0..(Len(comp.constants) - 1)
              /\ Increasing(ConstantLoads(currentInstructions(comp), 0))
              /\ \A k \in 1..Len(comp.constants) :
                    comp.constants[k].type = COMPILED_FUNCTION_OBJ =>
                        LET loads == ConstantLoads(comp.constants[k].ins, 0)
                        IN  /\ Increasing(loads)
                            /\ \A i \in 1..Len(loads) : loads[i] < k - 1

\* a program with a literal inside a function literal has been compiled: the
\* pool holds the body's literal and then the function
C24_ConstantPoolWitness ==
    /\ pc = "compiled"
    /\ ~SomeNodeFails(program)
    /\ Len(comp.constants) >= 2
    /\ \E k \in 2..Len(comp.constants) :
          /\ comp.constants[k].type = COMPILED_FUNCTION_OBJ
          /\ ConstantLoads(comp.constants[k].ins, 0) # <<>>
          /\ comp.constants[1].type = INTEGER_OBJ

\* the program ends in the expression statement l < r
EndsInLessThan ==
    /\ Len(program.kids) > 0
    /\ LastStatement(program).kind = "exprstmt"
    /\ LastStatement(program).kids[1].kind = "infix"
    /\ LastStatement(program).kids[1].op = "<"

\* the operands of that l < r
LessLeft == LastStatement(program).kids[1].kids[1]
LessRight == LastStatement(program).kids[1].kids[2]

\* C25 (less-than lowering): the code of a statement l < r is the code of r,
\* then the code of l, then OpGreaterThan (and the statement's OpPop), the
\* same bytecode as that of r > l; with integer literals as operands the VM's
\* result is true exactly when l is below r; no opcode is named for
\* less-than.
C25_LessThanLowering ==
    /\ \A op \in DOMAIN definitions : definitions[op].Name # "OpLessThan"
    /\ (Compiled /\ EndsInLessThan /\ ~SomeNodeFails(program)) =>
          LET before == SubSeq(program.kids, 1, Len(program.kids) - 1)
              c0 == Compile(Program(before), New).c
              c1 == Compile(LessRight, c0).c
              c2 == Compile(LessLeft, c1).c
              swapped == Compile(Program(Append(before,
                             ExpressionStatement(InfixExpression(LessRight, ">", LessLeft)))),
                             New).c
          IN  /\ currentInstructions(comp)
                    = currentInstructions(c2) \o <<OpGreaterThan, OpPop>>
              /\ comp.constants = c2.constants
              /\ Bytecode(comp) = Bytecode(swapped)
              /\ (pc = "halted" /\ LessLeft.kind = "int" /\ LessRight.kind = "int") =>
                    LastPoppedStackElem(vm)
                        = nativeBoolToBooleanObject(LessLeft.n < LessRight.n)

\* 1 < 2 has been compiled to the constants 2 and 1 and OpGreaterThan, and run
\* to true
C25_LessThanLoweringWitness ==
    /\ pc = "halted"
    /\ EndsInLessThan
    /\ LessLeft = IntegerLiteral(1)
    /\ LessRight = IntegerLiteral(2)
    /\ Strip(comp.constants[Len(comp.constants) - 1]) = Integer(2, 0)
    /\ Strip(comp.constants[Len(comp.constants)]) = Integer(1, 0)
    /\ LastPoppedStackElem(vm) = True

\* the opcode of the last instruction of a buffer, by its bytes (-1: empty)
LastOpcode(ins) ==
    IF Len(ins) = 0 THEN -1
    ELSE LET starts == InstructionStarts(ins, 0)
             last == CHOOSE i \in starts : \A j \in starts : j <= i
         IN  ins[last + 1]

\* the compiled functions of the pool
FunctionConstants(c) ==
    {k \in 1..Len(c.constants) : c.constants[k].type = COMPILED_FUNCTION_OBJ}

\* the last statement of the program is a function literal, as an expression
\* statement or as the value of a let
EndsInFunction ==
    /\ Len(program.kids) > 0
    /\ LastStatement(program).kind \in {"exprstmt", "let"}
    /\ LastStatement(program).kids[1].kind = "fn"

\* C26 (function bodies end in a return): the buffer of every
\* CompiledFunction constant ends with OpReturnValue or OpReturn; a body whose
\* code ends in OpPop has that OpPop replaced in place by OpReturnValue, a
\* body whose code ends in OpReturnValue is kept as it is, and every other
\* body (empty, or ending in a let) gets OpReturn appended.
C26_FunctionEndsInReturn ==
    pc # "parsed" =>
        /\ \A k \in FunctionConstants(comp) :
              LastOpcode(comp.constants[k].ins) \in {OpReturnValue, OpReturn}
        /\ (Compiled /\ EndsInFunction) =>
              LET before == SubSeq(program.kids, 1, Len(program.kids) - 1)
                  c0 == Compile(Program(before), New).c
                  body == currentInstructions(
                              Compile(LastStatement(program).kids[1].kids[1],
                                      enterScope(c0)).c)
                  fn == comp.constants[Len(comp.constants)].ins
              IN  CASE LastOpcode(body) = OpPop ->
                          fn = SubSeq(body, 1, Len(body) - 1) \o <<OpReturnValue>>
                    [] LastOpcode(body) = OpReturnValue -> fn = body
                    [] OTHER -> fn = body \o <<OpReturn>>

\* a function whose body ends in an if-expression has been compiled: its
\* buffer ends in OpReturnValue where the body's code ended in OpPop
C26_FunctionEndsInReturnWitness ==
    /\ pc = "compiled"
    /\ EndsInFunction
    /\ LET stmts == LastStatement(program).kids[1].kids[1].kids
       IN  /\ Len(stmts) > 0
           /\ stmts[Len(stmts)].kind = "exprstmt"
           /\ stmts[Len(stmts)].kids[1].kind = "if"
    /\ LastOpcode(comp.constants[Len(comp.constants)].ins) = OpReturnValue

\* C27 (compilation scopes balanced): whenever Compile has returned, with nil
\* or with an error, the compiler is back in the scope it was entered in
\* (scopeIndex = len(scopes) - 1 = 0, symbolTable the global table), and a
\* function literal whose body failed has added nothing to the enclosing
\* scope's buffer.
C27_ScopesBalanced ==
    pc \notin {"parsed", "compile_panicked"} =>
        /\ comp.scopeIndex = Len(comp.scopes) - 1
        /\ comp.scopeIndex = 0
        /\ Len(comp.symbolTable) = 1
        /\ (pc = "compile_error" /\ EndsInFunction) =>
              LET before == SubSeq(program.kids, 1, Len(program.kids) - 1)
              IN  comp.scopes[1].instructions
                      = currentInstructions(Compile(Program(before), New).c)

\* C28 (no read of an unset global): in a run of the bytecode of an
\* error-free program, the slot an OpGetGlobal is about to read has been
\* written by an OpSetGlobal, so that OpGetGlobal never pushes nil.
C28_NoUnsetGlobalRead ==
    (/\ pc = "running"
     /\ LoopCondition(vm)
     /\ NextOp(vm) = OpGetGlobal
     /\ ~SomeNodeFails(program)) =>
        SlotAt(vm.globals, vm.globalsLen,
               Operand(Instructions(currentFrame(vm)), currentFrame(vm).ip + 1)) # Nil

\* every jump of ins targets an offset greater than its own
JumpsForward(ins) ==
    \A j \in InstructionStarts(ins, 0) :
        ins[j + 1] \in {OpJump, OpJumpNotTruthy} => Operand(ins, j) > j

\* the iteration Run is about to make moves the outer frame's ip forward
\* unless it ends the run
IpAdvances ==
    LET o == RunIteration(vm)
    IN  (o.panic = "" /\ o.err = "") => currentFrame(o.vm).ip > currentFrame(vm).ip

\* C29 (Run terminates): every jump the compiler emits targets an offset
\* greater than the jump's own, every iteration of Run's loop that does not
\* end the run moves ip forward, and the run ends by Run returning (nil at
\* the end of the instructions, or an error) -- never otherwise.
C29_RunTerminates ==
    /\ Compiled => JumpsForward(currentInstructions(comp))
    /\ (pc = "running" /\ LoopCondition(vm)) => IpAdvances
    /\ (pc = "running" /\ ~LoopCondition(vm)) =>
          currentFrame(vm).ip >= Len(Instructions(currentFrame(vm))) - 1
    /\ pc # "panicked"

\* forward jumps and the progress of ip alone: they hold in every run
RunAdvances ==
    /\ Compiled => JumpsForward(currentInstructions(comp))
    /\ (pc = "running" /\ LoopCondition(vm)) => IpAdvances

\* C30 (disassembly terminates): String() finishes on every byte sequence,
\* a byte that is no opcode included; each iteration moves the offset on by
\* 1 + the operand widths of the instruction there, and when String() has
\* returned it has written one line for each instruction, at its offset.
C30_DisassemblyTerminates ==
    /\ pc \notin {"decoding for ever", "panicked"}
    /\ (pc = "decoding" /\ disasm.i < Len(disasm.ins) /\ ~StringPanics(disasm)) =>
          LET op == disasm.ins[disasm.i + 1]
              widths == IF Defined(op) THEN Lookup(op).OperandWidths ELSE <<>>
          IN  StringIteration(disasm).i = disasm.i + 1 + WidthSum(widths, Len(widths))
    /\ pc = "returned" =>
          /\ {disasm.out[k].offset : k \in 1..Len(disasm.out)}
                = InstructionStarts(disasm.ins, 0)
          /\ Len(disasm.out) = Cardinality(InstructionStarts(disasm.ins, 0))

\* sanity of the reading above: Compile reports an error only for a failing node
ErrorOnlyForFailingNode == pc = "compile_error" => SomeNodeFails(program)
\* ... and with no failing node C1 and C5 hold
StackEmptyWithoutFailingNode ==
    (pc = "halted" /\ ~SomeNodeFails(program)) => vm.sp = 0
JumpsLandWithoutFailingNode == SomeNodeFails(program) \/ C5_JumpsLand
\* ... and C3 too, apart from the read of a global whose let did not run (C28)
LastPoppedIsValueWithoutFailingNode ==
    SomeNodeFails(program) \/ program \in BranchLetPrograms \/ C3_LastPoppedIsValue
\* ... and the rules call for no error where Run returns nil
NoErrorWhereRunReturns ==
    (/\ pc = "halted"
     /\ LastStatement(program).kind = "exprstmt"
     /\ ~SomeNodeFails(program)
     /\ program \notin BranchLetPrograms)
        => Eval(program, <<>>).status # "error"

====
